---- MODULE Spec2Model ----
(***************************************************************************)
(* PATABOL: the session lifecycle coordinator (core/sesiones.py,           *)
(* bot/core.py) and the background simulation run (bot/simulation.py,      *)
(* channels/*.py) as a state machine.  One action per command of           *)
(* procesar_comando, one per step of the background run.  The match        *)
(* engine (core/patabol.py, SimuladorPartido) is a second state machine on *)
(* the variable motor, one action per tick.  The functions of the program  *)
(* that take no state are applied to their inputs on the variable calculo, *)
(* and obreros holds the worker threads of a channel that run commands     *)
(* concurrently, one action per step of a worker.                          *)
(***************************************************************************)
EXTENDS Integers, Sequences, FiniteSets, TLC

VARIABLES
    sesiones,       \* _sesiones_activas: session code -> Sesion (activa = FALSE: no entry)
    usuarioASesion, \* _usuario_a_sesion: human identifier -> session code (0: no entry)
    hilos,          \* background runs started by the channel after a signal
    senal,          \* the session the last step's procesar_comando returned (0: None)
    motor,          \* a SimuladorPartido, its players' statistics and its result
    calculo,        \* a call of a function of the program: its arguments and its value
    obreros         \* worker threads inside procesar_comando: their local variables

vars == <<sesiones, usuarioASesion, hilos, senal, motor, calculo, obreros>>

(***************************************************************************)
(* Bounds of the model.                                                    *)
(***************************************************************************)
\* size of the pool a session generates (the code generates 15)
TamPool == 6
\* session codes available to generar_sesion_id
MaxSesiones == 1
\* background runs alive at the same time
MaxHilos == 1
\* ids in one /seleccionar command (besides the longer lists of ListasIds)
MaxIds == 1
\* the length of the texts normalizar_id_patabolista is called on
MaxTexto == 3
\* the numbers and the leading zeros of the ids it is called on
MaxNumero == 12
MaxCeros == 2
\* the largest pool generar_pool is asked for
MaxCantidad == 30
\* the orders of the pool the random generator takes
NumOrdenes == 1
\* the ready-to-simulate signals counted per session (the counter saturates)
MaxSenales == 2
\* the ticks of a run of the engine whose draws are free; the draws of the
\* other ticks follow the script of the run
MaxLibres == 1

(***************************************************************************)
(* Program constants.                                                      *)
(***************************************************************************)
MAX_JUGADORES_EQUIPO == 5
MAX_JUGADORES_EN_SESION == 2
BOT_NUMERO_TELEFONO == "PATABOL_BOT"

Humanos == {"h1", "h2"}
Codigos == 1..MaxSesiones
SinCodigo == 0
NADIE == "nadie"

PORTERO == "Portero"
DEFENSA == "Defensa"
MEDIO == "Medio"
DELANTERO == "Delantero"

ESPERANDO_JUGADORES == "esperando_jugadores"
SELECCIONANDO_EQUIPOS == "seleccionando_equipos"
AMBOS_LISTOS == "ambos_listos"
PARTIDO_SIMULADO == "partido_simulado"

PENDIENTE_CONFIRMACION == "pendiente_confirmacion"
CONFIRMADO == "confirmado"

Max(a, b) == IF a >= b THEN a ELSE b
Min(a, b) == IF a <= b THEN a ELSE b

\* the elements of a sequence
Elems(s) == {s[i] : i \in DOMAIN s}

\* [x] * n of Python: n copies of x, none when n <= 0
Repetir(x, n) == [i \in 1..Max(0, n) |-> x]

\* s[:n] of Python, n >= 0
Prefijo(s, n) == SubSeq(s, 1, Min(n, Len(s)))

(***************************************************************************)
(* GeneradorPool: the roles of a generated pool.  Player i of the pool has *)
(* id "P<i>" and role GenerarPool(n)[i]; names and attributes are not read *)
(* by the coordinator.                                                     *)
(***************************************************************************)
\* an adjusted distribution that may leave out the goalkeepers
AjustarDistribucion_SinMinimo(cantidad) ==
    LET porteros == cantidad \div 8
        defensas == Max(1, cantidad \div 4)
        medios == Max(1, cantidad \div 3)
        delanteros == cantidad - porteros - defensas - medios
    IN  Prefijo(Repetir(PORTERO, porteros) \o Repetir(DEFENSA, defensas)
                \o Repetir(MEDIO, medios) \o Repetir(DELANTERO, delanteros),
                cantidad)

AjustarDistribucion(cantidad) ==
    LET porteros == Max(1, cantidad \div 8)
        defensas == Max(1, cantidad \div 4)
        medios == Max(1, cantidad \div 3)
        delanteros == cantidad - porteros - defensas - medios
    IN  Prefijo(Repetir(PORTERO, porteros) \o Repetir(DEFENSA, defensas)
                \o Repetir(MEDIO, medios) \o Repetir(DELANTERO, delanteros),
                cantidad)

GenerarPool(cantidad) ==
    LET roles_distribucion ==
            IF cantidad # 15
            THEN AjustarDistribucion(cantidad)
            ELSE Repetir(PORTERO, 2) \o Repetir(DEFENSA, 4)
                 \o Repetir(MEDIO, 5) \o Repetir(DELANTERO, 4)
    IN  Prefijo(roles_distribucion, cantidad)

\* the ranges of the four random.randint calls of _generar_atributos_por_rol
\* after the one of base, in the order of the code
RangosDe(rol) ==
    CASE rol = PORTERO -> <<0..3, 2..6, 2..4, 1..5>>
      [] rol = DEFENSA -> <<3..7, 3..7, 1..3, 2..6>>
      [] rol = MEDIO -> <<0..2, 4..8, 3..7, 0..2>>
      [] OTHER -> <<4..8, 1..3, 2..6, 2..4>>

\* the attributes without min(10, ...) and without the final clamp
GenerarAtributosPorRol_SinTope(rol, base, d) ==
    CASE rol = PORTERO ->
            [control |-> base + d[1], velocidad |-> d[2],
             fuerza |-> base + d[3], regate |-> d[4]]
      [] rol = DEFENSA ->
            [control |-> d[1], velocidad |-> d[2],
             fuerza |-> base + d[3], regate |-> d[4]]
      [] rol = MEDIO ->
            [control |-> base + d[1], velocidad |-> d[2],
             fuerza |-> d[3], regate |-> base + d[4]]
      [] OTHER ->
            [control |-> d[1], velocidad |-> base + d[2],
             fuerza |-> d[3], regate |-> base + d[4]]

\* _generar_atributos_por_rol: base and d are what random.randint returned
GenerarAtributosPorRol(rol, base, d) ==
    LET Acotar(x) == Max(1, Min(10, x))
        crudo ==
            CASE rol = PORTERO ->
                    [control |-> Min(10, base + d[1]), velocidad |-> d[2],
                     fuerza |-> Min(10, base + d[3]), regate |-> d[4]]
              [] rol = DEFENSA ->
                    [control |-> d[1], velocidad |-> d[2],
                     fuerza |-> Min(10, base + d[3]), regate |-> d[4]]
              [] rol = MEDIO ->
                    [control |-> Min(10, base + d[1]), velocidad |-> d[2],
                     fuerza |-> d[3], regate |-> Min(10, base + d[4])]
              [] OTHER ->
                    [control |-> d[1], velocidad |-> Min(10, base + d[2]),
                     fuerza |-> d[3], regate |-> Min(10, base + d[4])]
    IN  [control |-> Acotar(crudo.control), velocidad |-> Acotar(crudo.velocidad),
         fuerza |-> Acotar(crudo.fuerza), regate |-> Acotar(crudo.regate)]

\* random.randint(a, b) when the generator gives u
RandInt(a, b, u) == a + (u % (b - a + 1))

\* _generar_magia: random.random() returned rand hundredths and the generator
\* gives u to random.randint
GenerarMagia(rand, u) ==
    IF rand < 60 THEN RandInt(1, 3, u)
    ELSE IF rand < 90 THEN RandInt(4, 6, u)
    ELSE IF rand < 99 THEN RandInt(7, 8, u)
    ELSE RandInt(9, 10, u)

\* the pool of every session: crear_sesion calls generar_pool with a fixed count
PoolRoles == GenerarPool(TamPool)
Pool == [i \in 1..Len(PoolRoles) |-> i]
RolPreferido(p) == PoolRoles[p]

(***************************************************************************)
(* Player ids as the user types them: sequences of characters.             *)
(* "^2" is the superscript two, a character str.isdigit accepts and int    *)
(* rejects; " " is a blank.                                                *)
(***************************************************************************)
Digitos == <<"0", "1", "2", "3", "4", "5", "6", "7", "8", "9">>
\* int() reads c
EsDecimal(c) == \E d \in DOMAIN Digitos : Digitos[d] = c
\* c.isdigit()
EsDigito(c) == EsDecimal(c) \/ c = "^2"
Mayuscula(c) == IF c = "p" THEN "P" ELSE IF c = "x" THEN "X" ELSE c
Upper(t) == [i \in DOMAIN t |-> Mayuscula(t[i])]

\* str(n) for 0 <= n <= 99
Decimal(n) ==
    IF n < 10 THEN <<Digitos[n + 1]>>
    ELSE <<Digitos[(n \div 10) + 1], Digitos[(n % 10) + 1]>>

\* str(int(ds)) for a sequence of digits: the leading zeros go, one digit stays
RECURSIVE SinCerosIzquierda(_)
SinCerosIzquierda(ds) ==
    IF Len(ds) > 1 /\ ds[1] = "0" THEN SinCerosIzquierda(Tail(ds)) ELSE ds

\* texto.strip()
RECURSIVE Strip(_)
Strip(t) ==
    IF t = <<>> THEN t
    ELSE IF t[1] = " " THEN Strip(Tail(t))
    ELSE IF t[Len(t)] = " " THEN Strip(SubSeq(t, 1, Len(t) - 1))
    ELSE t

\* what a call returns when int() raises ValueError
ValueError == <<"ValueError">>

normalizar_id_patabolista(texto) ==
    LET t == Upper(Strip(texto))
    IN  IF Len(t) > 1 /\ t[1] = "P" /\ \A i \in 2..Len(t) : EsDigito(t[i])
        THEN IF \A i \in 2..Len(t) : EsDecimal(t[i])
             THEN <<"P">> \o SinCerosIzquierda(Tail(t))
             ELSE ValueError
        ELSE t

\* Patabolista.id of pool player p: f"P{i+1}"
IdDe(p) == <<"P">> \o Decimal(p)

\* the list generar_pool(cantidad) returns: the id and the role of each player
PoolGenerado(cantidad) ==
    LET roles == GenerarPool(cantidad)
    IN  [i \in 1..Len(roles) |-> [id |-> IdDe(i), rol_preferido |-> roles[i]]]

(***************************************************************************)
(* JugadorEnSesion and Sesion.  jugadores is the dict of the session in    *)
(* insertion order; equipo is a list of pool players.  senales and         *)
(* humano_confirmo are history the claims read and the program does not.   *)
(***************************************************************************)
JugadorEnSesion(numero) ==
    [numero_telefono |-> numero, equipo |-> <<>>,
     estado_equipo |-> PENDIENTE_CONFIRMACION]

SesionVacia ==
    [activa |-> FALSE, jugadores |-> <<>>, estado |-> ESPERANDO_JUGADORES,
     creador_numero |-> NADIE, ultimo_resultado |-> FALSE,
     senales |-> 0, humano_confirmo |-> FALSE]

TieneEquipoCompleto(j) == Len(j.equipo) >= 1

EquipoConfirmado(j) == j.estado_equipo = CONFIRMADO

\* numero in sesion.jugadores
EnSesion(s, numero) ==
    \E i \in DOMAIN s.jugadores : s.jugadores[i].numero_telefono = numero

\* the position of numero in sesion.jugadores
Indice(s, numero) ==
    CHOOSE i \in DOMAIN s.jugadores : s.jugadores[i].numero_telefono = numero

JugadorPorTelefono(s, numero) == s.jugadores[Indice(s, numero)]

\* pool_disponible_para without the exclusion of the other participant's picks
PoolDisponiblePara_SinExcluir(s, numero_telefono) == Pool

PoolDisponiblePara(s, numero_telefono) ==
    LET elegidos_por_otros ==
            UNION {Elems(s.jugadores[i].equipo) :
                   i \in {k \in DOMAIN s.jugadores :
                          s.jugadores[k].numero_telefono # numero_telefono}}
        libre(p) == p \notin elegidos_por_otros
    IN  SelectSeq(Pool, libre)

\* actualizar_estado that is ready as soon as the session is full
ActualizarEstado_SinEquipos(s) ==
    IF Len(s.jugadores) < MAX_JUGADORES_EN_SESION
    THEN [s EXCEPT !.estado = ESPERANDO_JUGADORES]
    ELSE [s EXCEPT !.estado = AMBOS_LISTOS]

ActualizarEstado(s) ==
    IF Len(s.jugadores) < MAX_JUGADORES_EN_SESION
    THEN [s EXCEPT !.estado = ESPERANDO_JUGADORES]
    ELSE IF \A i \in DOMAIN s.jugadores : TieneEquipoCompleto(s.jugadores[i])
         THEN [s EXCEPT !.estado = AMBOS_LISTOS]
         ELSE [s EXCEPT !.estado = SELECCIONANDO_EQUIPOS]

ListasParaSimular(s) ==
    /\ Len(s.jugadores) = MAX_JUGADORES_EN_SESION
    /\ \A i \in DOMAIN s.jugadores : TieneEquipoCompleto(s.jugadores[i])

\* equipos_confirmados without the look at equipo_confirmado
EquiposConfirmados_SinConfirmar(s) ==
    /\ Len(s.jugadores) = MAX_JUGADORES_EN_SESION
    /\ \A i \in DOMAIN s.jugadores : TieneEquipoCompleto(s.jugadores[i])

EquiposConfirmados(s) ==
    /\ Len(s.jugadores) = MAX_JUGADORES_EN_SESION
    /\ \A i \in DOMAIN s.jugadores :
          TieneEquipoCompleto(s.jugadores[i]) /\ EquipoConfirmado(s.jugadores[i])

\* sesion.jugadores.pop(numero, None)
QuitarJugador(s, numero) ==
    LET otro(j) == j.numero_telefono # numero
    IN  [s EXCEPT !.jugadores = SelectSeq(s.jugadores, otro)]

\* obtener_sesion_de_usuario: the code of the caller's active session, or SinCodigo
SesionDeUsuario(numero_telefono) ==
    LET sid == usuarioASesion[numero_telefono]
    IN  IF sid = SinCodigo THEN SinCodigo
        ELSE IF sesiones[sid].activa THEN sid ELSE SinCodigo

(***************************************************************************)
(* The random generator.  A draw ranks the pool players: azar is the order *)
(* in which the generator prefers them, random.choice takes the preferred  *)
(* entry of a list and random.sample the k preferred ones, most preferred  *)
(* first.  Every result of choice and of sample is the result under some   *)
(* order.                                                                  *)
(***************************************************************************)
\* the entries of lista in the order azar prefers them
PorAzar(lista, azar) ==
    LET enLista(p) == p \in Elems(lista)
    IN  SelectSeq(azar, enLista)

\* random.choice(lista), lista not empty
RandomChoice(lista, azar) == Head(PorAzar(lista, azar))

\* random.sample(lista, k), k <= len(lista)
RandomSample(lista, k, azar) == SubSeq(PorAzar(lista, azar), 1, k)

\* lista from its last entry to its first
Invertir(lista) == [i \in DOMAIN lista |-> lista[Len(lista) + 1 - i]]

\* the orders the generator takes in the coordinator's specification: the
\* reverse of the pool order, the pool order, and so on with the pool rotated
Rotar(lista, r) ==
    [i \in DOMAIN lista |-> lista[((i - 1 + r) % Len(lista)) + 1]]

Orden(r) ==
    IF r % 2 = 0 THEN Invertir(Rotar(Pool, r \div 2)) ELSE Rotar(Pool, r \div 2)

Ordenes == {Orden(r) : r \in 0..(NumOrdenes - 1)}

\* every order of the pool
TodosLosOrdenes ==
    {o \in [DOMAIN Pool -> Elems(Pool)] : \A i, j \in DOMAIN Pool : i # j => o[i] # o[j]}

\* the draft as a plain sample of the eligible pool, without the goalkeeper step
EquipoAutomatico_SinPortero(disponible, azar) ==
    RandomSample(disponible, Min(MAX_JUGADORES_EQUIPO, Len(disponible)), azar)

\* the draft of /seleccionar_auto and of the scripted opponent: one goalkeeper
\* first when the eligible pool has one, then a sample of the rest
EquipoAutomatico(disponible, azar) ==
    LET cantidad == Min(MAX_JUGADORES_EQUIPO, Len(disponible))
        esPortero(p) == RolPreferido(p) = PORTERO
        porteros == SelectSeq(disponible, esPortero)
        equipo == IF porteros # <<>> /\ cantidad > 0
                  THEN <<RandomChoice(porteros, azar)>>
                  ELSE <<>>
        fuera(p) == p \notin Elems(equipo)
        candidatos == SelectSeq(disponible, fuera)
        faltan == cantidad - Len(equipo)
    IN  IF faltan > 0 /\ candidatos # <<>>
        THEN equipo \o RandomSample(candidatos, Min(faltan, Len(candidatos)), azar)
        ELSE equipo

\* _seleccionar_equipo_bot_si_aplica
SeleccionarEquipoBotSiAplica(s, azar) ==
    IF Len(s.jugadores) # 2 \/ ~EnSesion(s, BOT_NUMERO_TELEFONO)
    THEN s
    ELSE LET b == Indice(s, BOT_NUMERO_TELEFONO)
             disponible == PoolDisponiblePara(s, BOT_NUMERO_TELEFONO)
             equipo == EquipoAutomatico(disponible, azar)
         IN  IF s.jugadores[b].equipo # <<>> \/ disponible = <<>> \/ equipo = <<>>
             THEN s
             ELSE ActualizarEstado(
                      [s EXCEPT !.jugadores[b].equipo = equipo,
                                !.jugadores[b].estado_equipo = CONFIRMADO])

(***************************************************************************)
(* The inputs of the commands.                                             *)
(***************************************************************************)
\* the ids a user types: two pool ids, the first of them again in lower case
\* with a leading zero, and an id that is in no pool
TokensEntrada ==
    {<<"P", "1">>, <<"P", "2">>, <<"p", "0", "1">>, <<"P", "9", "9">>}

\* one id more than a roster may hold
ListaLarga == [i \in 1..(MAX_JUGADORES_EQUIPO + 1) |-> IdDe(Min(i, TamPool))]
\* the same player named three times
ListaRepetida == <<<<"P", "1">>, <<"p", "0", "1">>, <<"P", "0", "0", "1">>>>

\* partes[1:] of a /seleccionar command
ListasIds ==
    UNION {[1..n -> TokensEntrada] : n \in 0..MaxIds} \cup {ListaLarga, ListaRepetida}

(***************************************************************************)
(* Background runs.  A run holds the Sesion object the command returned:   *)
(* cod is its code while the store still holds the object (viva); once the *)
(* store drops the object the run is its only holder, and objeto is the    *)
(* object itself.  finalizados is history: whether the rosters the run     *)
(* handed to SimuladorPartido were both non-empty and both Confirmed.      *)
(***************************************************************************)
NuevoHilo(cod) ==
    [pc |-> "espera", cod |-> cod, viva |-> TRUE, objeto |-> SesionVacia,
     user_ids |-> <<>>, finalizados |-> FALSE]

\* the runs after the store dropped the session of code sid, whose object is s
Desprender(hs, sid, s) ==
    [i \in DOMAIN hs |->
        IF hs[i].cod = sid /\ hs[i].viva
        THEN [hs[i] EXCEPT !.viva = FALSE,
                           !.objeto = IF hs[i].pc = "espera" THEN s ELSE SesionVacia]
        ELSE hs[i]]

\* hs without its i-th run
SinHilo(hs, i) == SubSeq(hs, 1, i - 1) \o SubSeq(hs, i + 1, Len(hs))

(***************************************************************************)
(* core/sesiones.py: the store.  Each operator takes and returns the store *)
(* st = [ses, idx, hilos].                                                 *)
(***************************************************************************)
Almacen == [ses |-> sesiones, idx |-> usuarioASesion, hilos |-> hilos]

SesionPorDefecto ==
    [SesionVacia EXCEPT !.activa = TRUE]

CrearSesion(st, sid, numero_creador) ==
    [st EXCEPT
        !.ses[sid] = [SesionVacia EXCEPT
                        !.activa = TRUE,
                        !.jugadores = <<JugadorEnSesion(numero_creador)>>,
                        !.estado = SELECCIONANDO_EQUIPOS,
                        !.creador_numero = numero_creador],
        !.idx[numero_creador] = sid]

\* unirse_sesion without the look at the number of participants
PuedeUnirse_SinCupo(st, sid, numero_telefono) ==
    /\ st.ses[sid].activa
    /\ ~EnSesion(st.ses[sid], numero_telefono)

\* unirse_sesion may add the caller
PuedeUnirse(st, sid, numero_telefono) ==
    /\ st.ses[sid].activa
    /\ Len(st.ses[sid].jugadores) < MAX_JUGADORES_EN_SESION
    /\ ~EnSesion(st.ses[sid], numero_telefono)

UnirseSesion(st, sid, numero_telefono) ==
    IF ~PuedeUnirse(st, sid, numero_telefono) THEN st
    ELSE [st EXCEPT
            !.ses[sid] = ActualizarEstado(
                [@ EXCEPT !.jugadores = Append(@, JugadorEnSesion(numero_telefono))]),
            !.idx[numero_telefono] = sid]

\* agregar_bot_a_sesion without the look at the creator
PuedeAgregarBot_SinCreador(st, sid, numero_creador) ==
    /\ st.ses[sid].activa
    /\ Len(st.ses[sid].jugadores) < MAX_JUGADORES_EN_SESION
    /\ ~EnSesion(st.ses[sid], BOT_NUMERO_TELEFONO)

\* agregar_bot_a_sesion may add the scripted opponent
PuedeAgregarBot(st, sid, numero_creador) ==
    /\ st.ses[sid].activa
    /\ st.ses[sid].creador_numero # NADIE
    /\ st.ses[sid].creador_numero = numero_creador
    /\ Len(st.ses[sid].jugadores) < MAX_JUGADORES_EN_SESION
    /\ ~EnSesion(st.ses[sid], BOT_NUMERO_TELEFONO)

AgregarBotASesion(st, sid, numero_creador) ==
    IF ~PuedeAgregarBot(st, sid, numero_creador) THEN st
    ELSE [st EXCEPT
            !.ses[sid] = ActualizarEstado(
                [@ EXCEPT !.jugadores = Append(@, JugadorEnSesion(BOT_NUMERO_TELEFONO))])]

\* the humans of a session
HumanosDe(s) ==
    {s.jugadores[i].numero_telefono : i \in DOMAIN s.jugadores} \ {BOT_NUMERO_TELEFONO}

\* salir_sesion dropping the session only when no participant at all remains
SalirSesion_SinJugadores(st, numero_telefono) ==
    LET sid == st.idx[numero_telefono]
        st1 == [st EXCEPT !.idx[numero_telefono] = SinCodigo]
    IN  IF sid = SinCodigo THEN st1
        ELSE IF ~st.ses[sid].activa THEN st1
        ELSE LET s1 == ActualizarEstado(QuitarJugador(st.ses[sid], numero_telefono))
             IN  IF s1.jugadores = <<>>
                 THEN [st1 EXCEPT !.ses[sid] = SesionVacia,
                                  !.hilos = Desprender(@, sid, s1)]
                 ELSE [st1 EXCEPT !.ses[sid] = s1]

\* salir_sesion that leaves the entry of the caller in the reverse index
SalirSesion_SinIndice(st, numero_telefono) ==
    LET sid == st.idx[numero_telefono]
    IN  IF sid = SinCodigo THEN st
        ELSE IF ~st.ses[sid].activa THEN st
        ELSE LET s1 == ActualizarEstado(QuitarJugador(st.ses[sid], numero_telefono))
             IN  IF HumanosDe(s1) = {}
                 THEN [st EXCEPT !.ses[sid] = SesionVacia,
                                 !.hilos = Desprender(@, sid, s1)]
                 ELSE [st EXCEPT !.ses[sid] = s1]

SalirSesion(st, numero_telefono) ==
    LET sid == st.idx[numero_telefono]
        st1 == [st EXCEPT !.idx[numero_telefono] = SinCodigo]
    IN  IF sid = SinCodigo THEN st1
        ELSE IF ~st.ses[sid].activa THEN st1
        ELSE LET s1 == ActualizarEstado(QuitarJugador(st.ses[sid], numero_telefono))
             IN  IF HumanosDe(s1) = {}
                 THEN [st1 EXCEPT !.ses[sid] = SesionVacia,
                                  !.hilos = Desprender(@, sid, s1)]
                 ELSE [st1 EXCEPT !.ses[sid] = s1]

MarcarPartidoSimulado(st, sid) ==
    IF st.ses[sid].activa
    THEN [st EXCEPT !.ses[sid].estado = PARTIDO_SIMULADO]
    ELSE st

(***************************************************************************)
(* bot/core.py: procesar_comando, one operator per command on the caller's *)
(* session s.                                                              *)
(***************************************************************************)
\* /seleccionar: the pool player an id names among disponible, 0 when none
JugadorDeId(disponible, id_jugador) ==
    LET id_norm == normalizar_id_patabolista(id_jugador)
        nombrados == {p \in Elems(disponible) : normalizar_id_patabolista(IdDe(p)) = id_norm}
    IN  IF nombrados = {} THEN 0 ELSE CHOOSE p \in nombrados : TRUE

\* /seleccionar without the limit on the number of ids
SeleccionValida_SinMaximo(s, user_id, ids) ==
    LET disponible == PoolDisponiblePara(s, user_id)
    IN  /\ disponible # <<>>
        /\ ids # <<>>
        /\ \A i \in DOMAIN ids : JugadorDeId(disponible, ids[i]) # 0

\* /seleccionar accepts the ids
SeleccionValida(s, user_id, ids) ==
    LET disponible == PoolDisponiblePara(s, user_id)
    IN  /\ disponible # <<>>
        /\ ids # <<>>
        /\ Len(ids) <= MAX_JUGADORES_EQUIPO
        /\ \A i \in DOMAIN ids : JugadorDeId(disponible, ids[i]) # 0

\* the caller's roster becomes equipo and the caller keeps their status
PonerEquipo_SinPendiente(s, user_id, equipo) ==
    LET k == Indice(s, user_id)
    IN  ActualizarEstado([s EXCEPT !.jugadores[k].equipo = equipo])

\* the caller's roster becomes equipo and the caller Pending
PonerEquipo(s, user_id, equipo) ==
    LET k == Indice(s, user_id)
    IN  ActualizarEstado([s EXCEPT !.jugadores[k].equipo = equipo,
                                   !.jugadores[k].estado_equipo = PENDIENTE_CONFIRMACION])

\* /seleccionar putting the caller back to Pending before it reads the ids
Seleccionar_PendienteAntes(s, user_id, ids) ==
    IF ~SeleccionValida(s, user_id, ids)
    THEN [s EXCEPT !.jugadores[Indice(s, user_id)].estado_equipo = PENDIENTE_CONFIRMACION]
    ELSE LET disponible == PoolDisponiblePara(s, user_id)
         IN  PonerEquipo(s, user_id,
                         [i \in DOMAIN ids |-> JugadorDeId(disponible, ids[i])])

Seleccionar(s, user_id, ids) ==
    IF ~SeleccionValida(s, user_id, ids) THEN s
    ELSE LET disponible == PoolDisponiblePara(s, user_id)
         IN  PonerEquipo(s, user_id,
                         [i \in DOMAIN ids |-> JugadorDeId(disponible, ids[i])])

\* /seleccionar_auto builds a roster
SeleccionAutoValida(s, user_id, azar) ==
    /\ PoolDisponiblePara(s, user_id) # <<>>
    /\ EquipoAutomatico(PoolDisponiblePara(s, user_id), azar) # <<>>

\* /seleccionar_auto with the scripted opponent drafting at once
SeleccionarAuto_ConBot(s, user_id, azar) ==
    IF ~SeleccionAutoValida(s, user_id, azar) THEN s
    ELSE SeleccionarEquipoBotSiAplica(
             PonerEquipo(s, user_id, EquipoAutomatico(PoolDisponiblePara(s, user_id), azar)),
             azar)

SeleccionarAuto(s, user_id, azar) ==
    IF ~SeleccionAutoValida(s, user_id, azar) THEN s
    ELSE PonerEquipo(s, user_id, EquipoAutomatico(PoolDisponiblePara(s, user_id), azar))

\* /quitar finds the id in the caller's roster
QuitarValido(s, user_id, id) ==
    LET id_buscado == normalizar_id_patabolista(id)
        equipo == JugadorPorTelefono(s, user_id).equipo
    IN  /\ equipo # <<>>
        /\ \E i \in DOMAIN equipo : normalizar_id_patabolista(IdDe(equipo[i])) = id_buscado

\* /quitar taking out only the first roster entry the id names
Quitar_SoloPrimero(s, user_id, id) ==
    IF ~QuitarValido(s, user_id, id) THEN s
    ELSE LET id_buscado == normalizar_id_patabolista(id)
             equipo == JugadorPorTelefono(s, user_id).equipo
             k == CHOOSE i \in DOMAIN equipo :
                      /\ normalizar_id_patabolista(IdDe(equipo[i])) = id_buscado
                      /\ \A j \in 1..(i - 1) :
                            normalizar_id_patabolista(IdDe(equipo[j])) # id_buscado
         IN  PonerEquipo(s, user_id,
                         SubSeq(equipo, 1, k - 1) \o SubSeq(equipo, k + 1, Len(equipo)))

Quitar(s, user_id, id) ==
    IF ~QuitarValido(s, user_id, id) THEN s
    ELSE LET id_buscado == normalizar_id_patabolista(id)
             otro(p) == normalizar_id_patabolista(IdDe(p)) # id_buscado
         IN  PonerEquipo(s, user_id,
                         SelectSeq(JugadorPorTelefono(s, user_id).equipo, otro))

\* /confirmar without the early return for a participant already Confirmed
ConfirmarValido_SinYaConfirmado(s, user_id) ==
    JugadorPorTelefono(s, user_id).equipo # <<>>

\* /confirmar goes past its two early returns
ConfirmarValido(s, user_id) ==
    /\ JugadorPorTelefono(s, user_id).equipo # <<>>
    /\ ~EquipoConfirmado(JugadorPorTelefono(s, user_id))

\* /confirmar without the scripted opponent's draft
Confirmar_SinBot(s, user_id, azar) ==
    IF ~ConfirmarValido(s, user_id) THEN s
    ELSE [s EXCEPT !.jugadores[Indice(s, user_id)].estado_equipo = CONFIRMADO,
                   !.humano_confirmo = TRUE]

\* /confirmar, the scripted opponent's draft included
Confirmar(s, user_id, azar) ==
    IF ~ConfirmarValido(s, user_id) THEN s
    ELSE LET s1 == [s EXCEPT !.jugadores[Indice(s, user_id)].estado_equipo = CONFIRMADO,
                             !.humano_confirmo = TRUE]
         IN  IF EnSesion(s1, BOT_NUMERO_TELEFONO)
                /\ JugadorPorTelefono(s1, BOT_NUMERO_TELEFONO).equipo = <<>>
             THEN SeleccionarEquipoBotSiAplica(s1, azar)
             ELSE s1

\* /confirmar returns the session (the ready-to-simulate signal), s2 being the
\* session it leaves
DevuelveSenal(s, user_id, s2) ==
    ConfirmarValido(s, user_id) /\ EquiposConfirmados(s2)

(***************************************************************************)
(* bot/simulation.py: ejecutar_simulacion_y_notificar on the Sesion object *)
(* a run holds.                                                            *)
(***************************************************************************)
\* the Sesion object of a run
ObjetoDe(h) == IF h.viva THEN sesiones[h.cod] ELSE h.objeto

\* user_ids: the humans among the two participants, in order
UserIds(s) ==
    LET humano(j) == j.numero_telefono # BOT_NUMERO_TELEFONO
        js == SelectSeq(s.jugadores, humano)
    IN  [i \in DOMAIN js |-> js[i].numero_telefono]

\* the rosters the run hands to SimuladorPartido are both non-empty and both Confirmed
Finalizados(s) ==
    \A i \in 1..2 :
        s.jugadores[i].equipo # <<>> /\ EquipoConfirmado(s.jugadores[i])

\* SimuladorPartido(equipo_a, equipo_b).simular() can return: every tick picks
\* the holder from the side in possession, and a dispossession or a shot reads
\* the other side, so a run on one empty roster either raises IndexError or
\* never leaves the non-empty side
PuedeTerminar(equipo_a, equipo_b) == equipo_a # <<>> \/ equipo_b # <<>>

\* SimuladorPartido(equipo_a, equipo_b).simular() can raise
PuedeFallar(equipo_a, equipo_b) == equipo_a = <<>> \/ equipo_b = <<>>

\* salir_sesion_fn for each of user_ids
RECURSIVE SalirTodos(_, _)
SalirTodos(st, user_ids) ==
    IF user_ids = <<>> THEN st
    ELSE SalirTodos(SalirSesion(st, Head(user_ids)), Tail(user_ids))

(***************************************************************************)
(* core/patabol.py: SimuladorPartido.  A roster is a list of players; the  *)
(* players of a match carry the roles of a generated pool of 15.  The      *)
(* statistics live on the Patabolista objects, which outlive a simulator:  *)
(* stats maps each player of the match to its counters.  A random draw is  *)
(* an input: tiro holds what the draws of one tick resolve to, the holder  *)
(* picked when nobody has the ball, the action, its outcome, the team mate *)
(* or rival picked, and whether a goal is described as epic.  Attributes   *)
(* only weigh the draws; every outcome has a chance for some attributes.   *)
(* guion and libres bound the draws a run explores: the script its ticks   *)
(* follow and the number of ticks that left it.                            *)
(***************************************************************************)
PASO_TIEMPO == 10
TOTAL_ESTADOS == 30

PoolCompleto == GenerarPool(15)
RolEnPartido(p) == PoolCompleto[p]

\* Patabolista.reset_estadisticas
StatsCero ==
    [toques |-> 0, pases |-> 0, regates_exitosos |-> 0, robos |-> 0,
     faltas |-> 0, goles |-> 0, atajadas |-> 0]

\* jugador.<campo> += 1
Inc(stats, p, campo) == [stats EXCEPT ![p][campo] = @ + 1]

SinResultado == [hay |-> FALSE]
SinAnterior == [hay |-> FALSE]

\* no simulator exists
MotorParado ==
    [pc |-> "parado", equipo_a |-> <<>>, equipo_b |-> <<>>,
     posesion_equipo_a |-> TRUE, jugador_con_pelota |-> 0,
     goles_a |-> 0, goles_b |-> 0, eventos |-> <<>>, estado |-> 0,
     stats |-> <<>>, resultado |-> SinResultado,
     sorteo |-> TRUE, tiros |-> <<>>, corrida |-> 1, anterior |-> SinAnterior,
     guion |-> "conservar", libres |-> 0]

\* a simulator that resets the counters of the players of equipo_a only
NuevoSimulador_SoloEquipoA(equipo_a, equipo_b, stats) ==
    [MotorParado EXCEPT
        !.pc = "nuevo", !.equipo_a = equipo_a, !.equipo_b = equipo_b,
        !.stats = [p \in DOMAIN stats |->
                      IF p \in Elems(equipo_a) THEN StatsCero ELSE stats[p]]]

\* a simulator that leaves the counters of its players as they are
NuevoSimulador_SinReset(equipo_a, equipo_b, stats) ==
    [MotorParado EXCEPT
        !.pc = "nuevo", !.equipo_a = equipo_a, !.equipo_b = equipo_b, !.stats = stats]

\* SimuladorPartido(equipo_a, equipo_b) on players whose counters are stats
NuevoSimulador(equipo_a, equipo_b, stats) ==
    [MotorParado EXCEPT
        !.pc = "nuevo", !.equipo_a = equipo_a, !.equipo_b = equipo_b,
        !.stats = [p \in DOMAIN stats |->
                      IF p \in Elems(equipo_a \o equipo_b) THEN StatsCero ELSE stats[p]]]

\* the team in possession and its rival
EquipoActual(m) == IF m.posesion_equipo_a THEN m.equipo_a ELSE m.equipo_b
JugadoresRivales(m) == IF m.posesion_equipo_a THEN m.equipo_b ELSE m.equipo_a

\* the first player of the rival, goalkeeper or not
PorteroRival_Primero(m) == JugadoresRivales(m)[1]

\* _obtener_portero_rival: the first goalkeeper of the rival, else its first player
PorteroRival(m) ==
    LET rival == JugadoresRivales(m)
        porteros == {i \in DOMAIN rival : RolEnPartido(rival[i]) = PORTERO}
    IN  IF porteros = {} THEN rival[1]
        ELSE rival[CHOOSE i \in porteros : \A j \in porteros : i <= j]

\* an event stamped with the seconds since the kick-off, not within the minute
Evento_SegundoTotal(m, tipo, jugador, otro, epica) ==
    LET segundo == m.estado * PASO_TIEMPO
    IN  [minuto |-> segundo \div 60, segundo |-> segundo, tipo |-> tipo,
         jugador |-> jugador, otro |-> otro, epica |-> epica]

\* Evento(minuto, segundo % 60, ..., tipo) of the tick m.estado
Evento(m, tipo, jugador, otro, epica) ==
    LET segundo == m.estado * PASO_TIEMPO
    IN  [minuto |-> segundo \div 60, segundo |-> segundo % 60, tipo |-> tipo,
         jugador |-> jugador, otro |-> otro, epica |-> epica]

\* what the draws of one tick can resolve to
TirosPosibles(m) ==
    LET quienes == IF m.jugador_con_pelota = 0 THEN Elems(EquipoActual(m))
                   ELSE {m.jugador_con_pelota}
        Tiro(j, a, r, o, e) ==
            [jugador |-> j, accion |-> a, resultado |-> r, otro |-> o, epica |-> e]
    IN  UNION {
            {Tiro(j, "avanzar_con_pelota", r, 0, FALSE) :
                r \in {"conservar_pelota", "perder_pelota"}}
            \cup {Tiro(j, "lanzar_pelota", "perder_pelota", 0, FALSE)}
            \cup {Tiro(j, "lanzar_pelota", "conservar_pelota", o, FALSE) :
                    o \in Elems(EquipoActual(m))}
            \cup {Tiro(j, "intentar_quitar_pelota", r[1], r[2], FALSE) :
                    r \in {"falta", "conservar_pelota", "perder_pelota"}
                          \X Elems(JugadoresRivales(m))}
            \cup (IF RolEnPartido(j) = DELANTERO /\ JugadoresRivales(m) # <<>>
                  THEN {Tiro(j, "intentar_gol", "atajada", PorteroRival(m), FALSE)}
                       \cup {Tiro(j, "intentar_gol", "gol", PorteroRival(m), e) :
                                e \in BOOLEAN}
                  ELSE {})
            : j \in quienes}

\* _avanzar_con_pelota and its branch of _procesar_estado
AvanzarConPelota(m, jugador, t) ==
    LET m1 == [m EXCEPT !.stats = Inc(@, jugador, "toques")]
    IN  IF t.resultado = "conservar_pelota"
        THEN [m1 EXCEPT !.eventos = Append(@, Evento(m, "avance", jugador, 0, FALSE))]
        ELSE m1

\* _lanzar_pelota and its branch of _procesar_estado
LanzarPelota(m, jugador, t) ==
    LET m1 == [m EXCEPT !.stats = Inc(Inc(@, jugador, "toques"), jugador, "pases")]
    IN  IF t.resultado = "conservar_pelota"
        THEN [m1 EXCEPT
                !.stats = Inc(Inc(@, jugador, "pases"), t.otro, "toques"),
                !.jugador_con_pelota = t.otro,
                !.eventos = Append(@, Evento(m, "pase", jugador, t.otro, FALSE))]
        ELSE m1

\* a dispossession whose steal hands the ball over and keeps the possession
IntentarQuitarPelota_SinCambio(m, jugador, t) ==
    LET defensor == t.otro
        m1 == [m EXCEPT !.stats = Inc(Inc(@, jugador, "toques"), defensor, "toques")]
    IN  CASE t.resultado = "falta" ->
                [m1 EXCEPT !.stats = Inc(@, defensor, "faltas"),
                           !.eventos = Append(@, Evento(m, "falta", defensor, jugador, FALSE))]
          [] t.resultado = "perder_pelota" ->
                [m1 EXCEPT !.stats = Inc(@, defensor, "robos"),
                           !.jugador_con_pelota = defensor,
                           !.eventos = Append(@, Evento(m, "robo", defensor, jugador, FALSE))]
          [] OTHER ->
                [m1 EXCEPT !.stats = Inc(@, jugador, "regates_exitosos"),
                           !.eventos = Append(@, Evento(m, "regate", jugador, defensor, FALSE))]

\* a dispossession whose steal clears the holder as a lost ball does
IntentarQuitarPelota_SinPoseedor(m, jugador, t) ==
    LET defensor == t.otro
        m1 == [m EXCEPT !.stats = Inc(Inc(@, jugador, "toques"), defensor, "toques")]
    IN  CASE t.resultado = "falta" ->
                [m1 EXCEPT !.stats = Inc(@, defensor, "faltas"),
                           !.eventos = Append(@, Evento(m, "falta", defensor, jugador, FALSE))]
          [] t.resultado = "perder_pelota" ->
                [m1 EXCEPT !.stats = Inc(@, defensor, "robos"),
                           !.posesion_equipo_a = ~@,
                           !.jugador_con_pelota = 0,
                           !.eventos = Append(@, Evento(m, "robo", defensor, jugador, FALSE))]
          [] OTHER ->
                [m1 EXCEPT !.stats = Inc(@, jugador, "regates_exitosos"),
                           !.eventos = Append(@, Evento(m, "regate", jugador, defensor, FALSE))]

\* _intentar_quitar_pelota and its branch of _procesar_estado
IntentarQuitarPelota(m, jugador, t) ==
    LET defensor == t.otro
        m1 == [m EXCEPT !.stats = Inc(Inc(@, jugador, "toques"), defensor, "toques")]
    IN  CASE t.resultado = "falta" ->
                [m1 EXCEPT !.stats = Inc(@, defensor, "faltas"),
                           !.eventos = Append(@, Evento(m, "falta", defensor, jugador, FALSE))]
          [] t.resultado = "perder_pelota" ->
                [m1 EXCEPT !.stats = Inc(@, defensor, "robos"),
                           !.posesion_equipo_a = ~@,
                           !.jugador_con_pelota = defensor,
                           !.eventos = Append(@, Evento(m, "robo", defensor, jugador, FALSE))]
          [] OTHER ->
                [m1 EXCEPT !.stats = Inc(@, jugador, "regates_exitosos"),
                           !.eventos = Append(@, Evento(m, "regate", jugador, defensor, FALSE))]

\* a shot whose goal goes to the tally of side a whoever has the ball
IntentarGol_SiempreA(m, jugador, t) ==
    LET portero == PorteroRival(m)
        m1 == [m EXCEPT !.stats = Inc(@, jugador, "toques")]
    IN  IF t.resultado = "gol"
        THEN [m1 EXCEPT
                !.stats = Inc(@, jugador, "goles"),
                !.goles_a = @ + 1,
                !.jugador_con_pelota = 0,
                !.eventos = Append(@, Evento(m, "gol", jugador, 0, t.epica))]
        ELSE [m1 EXCEPT
                !.stats = Inc(@, portero, "atajadas"),
                !.jugador_con_pelota = 0,
                !.eventos = Append(@, Evento(m, "atajada", portero, jugador, FALSE))]

\* _intentar_gol and its branch of _procesar_estado
IntentarGol(m, jugador, t) ==
    LET portero == PorteroRival(m)
        m1 == [m EXCEPT !.stats = Inc(@, jugador, "toques")]
    IN  IF t.resultado = "gol"
        THEN [m1 EXCEPT
                !.stats = Inc(@, jugador, "goles"),
                !.goles_a = IF m.posesion_equipo_a THEN @ + 1 ELSE @,
                !.goles_b = IF m.posesion_equipo_a THEN @ ELSE @ + 1,
                !.jugador_con_pelota = 0,
                !.eventos = Append(@, Evento(m, "gol", jugador, 0, t.epica))]
        ELSE [m1 EXCEPT
                !.stats = Inc(@, portero, "atajadas"),
                !.jugador_con_pelota = 0,
                !.eventos = Append(@, Evento(m, "atajada", portero, jugador, FALSE))]

\* a tick whose lost ball flips the possession and leaves the holder in place
ProcesarEstado_SinSoltar(m, t) ==
    LET jugador == IF m.jugador_con_pelota = 0 THEN t.jugador ELSE m.jugador_con_pelota
        m0 == [m EXCEPT !.jugador_con_pelota = jugador]
        m1 == CASE t.accion = "avanzar_con_pelota" -> AvanzarConPelota(m0, jugador, t)
                [] t.accion = "lanzar_pelota" -> LanzarPelota(m0, jugador, t)
                [] t.accion = "intentar_quitar_pelota" -> IntentarQuitarPelota(m0, jugador, t)
                [] t.accion = "intentar_gol" /\ RolEnPartido(jugador) = DELANTERO ->
                        IntentarGol(m0, jugador, t)
                [] OTHER -> m0
        m2 == IF t.resultado = "perder_pelota" /\ t.accion # "intentar_quitar_pelota"
              THEN [m1 EXCEPT !.posesion_equipo_a = ~@]
              ELSE m1
    IN  [m2 EXCEPT !.estado = @ + 1, !.tiros = Append(@, t)]

\* _procesar_estado(estado) under the draws t, estado being m.estado
ProcesarEstado(m, t) ==
    LET jugador == IF m.jugador_con_pelota = 0 THEN t.jugador ELSE m.jugador_con_pelota
        m0 == [m EXCEPT !.jugador_con_pelota = jugador]
        m1 == CASE t.accion = "avanzar_con_pelota" -> AvanzarConPelota(m0, jugador, t)
                [] t.accion = "lanzar_pelota" -> LanzarPelota(m0, jugador, t)
                [] t.accion = "intentar_quitar_pelota" -> IntentarQuitarPelota(m0, jugador, t)
                [] t.accion = "intentar_gol" /\ RolEnPartido(jugador) = DELANTERO ->
                        IntentarGol(m0, jugador, t)
                [] OTHER -> m0
        m2 == IF t.resultado = "perder_pelota" /\ t.accion # "intentar_quitar_pelota"
              THEN [m1 EXCEPT !.posesion_equipo_a = ~@, !.jugador_con_pelota = 0]
              ELSE m1
    IN  [m2 EXCEPT !.estado = @ + 1, !.tiros = Append(@, t)]

(***************************************************************************)
(* patabol.py at the root of the sources: a second SimuladorPartido.  Its  *)
(* _intentar_quitar_pelota credits the foul and the steal, and its         *)
(* _procesar_estado credits them again; the rest of its tick is the tick   *)
(* of core/patabol.py.                                                     *)
(***************************************************************************)
\* patabol.py: _intentar_quitar_pelota and its branch of _procesar_estado
RaizIntentarQuitarPelota(m, jugador, t) ==
    LET defensor == t.otro
        m1 == [m EXCEPT !.stats = Inc(Inc(@, jugador, "toques"), defensor, "toques")]
    IN  CASE t.resultado = "falta" ->
                [m1 EXCEPT !.stats = Inc(Inc(@, defensor, "faltas"), defensor, "faltas"),
                           !.eventos = Append(@, Evento(m, "falta", defensor, jugador, FALSE))]
          [] t.resultado = "perder_pelota" ->
                [m1 EXCEPT !.stats = Inc(Inc(@, defensor, "robos"), defensor, "robos"),
                           !.posesion_equipo_a = ~@,
                           !.jugador_con_pelota = defensor,
                           !.eventos = Append(@, Evento(m, "robo", defensor, jugador, FALSE))]
          [] OTHER ->
                [m1 EXCEPT !.stats = Inc(@, jugador, "regates_exitosos"),
                           !.eventos = Append(@, Evento(m, "regate", jugador, defensor, FALSE))]

\* patabol.py: _procesar_estado(estado) under the draws t
RaizProcesarEstado(m, t) ==
    LET jugador == IF m.jugador_con_pelota = 0 THEN t.jugador ELSE m.jugador_con_pelota
        m0 == [m EXCEPT !.jugador_con_pelota = jugador]
        m1 == CASE t.accion = "avanzar_con_pelota" -> AvanzarConPelota(m0, jugador, t)
                [] t.accion = "lanzar_pelota" -> LanzarPelota(m0, jugador, t)
                [] t.accion = "intentar_quitar_pelota" ->
                        RaizIntentarQuitarPelota(m0, jugador, t)
                [] t.accion = "intentar_gol" /\ RolEnPartido(jugador) = DELANTERO ->
                        IntentarGol(m0, jugador, t)
                [] OTHER -> m0
        m2 == IF t.resultado = "perder_pelota" /\ t.accion # "intentar_quitar_pelota"
              THEN [m1 EXCEPT !.posesion_equipo_a = ~@, !.jugador_con_pelota = 0]
              ELSE m1
    IN  [m2 EXCEPT !.estado = @ + 1, !.tiros = Append(@, t)]

\* patabol.py: the loop of simular, the tick m.estado taking the draws
\* tiros[m.estado + 1]
RECURSIVE RaizProcesarEstados(_, _)
RaizProcesarEstados(m, tiros) ==
    IF m.estado >= Len(tiros) THEN m
    ELSE RaizProcesarEstados(RaizProcesarEstado(m, tiros[m.estado + 1]), tiros)

\* the probability without the cap
CalcularProbabilidadExito_SinTope(atributo, base) == base + (atributo - 5) * 10

\* _calcular_probabilidad_exito in hundredths: min(0.95, base + (atributo - 5) * 0.1)
CalcularProbabilidadExito(atributo, base) == Min(95, base + (atributo - 5) * 10)

\* _aplicar_magia in thousandths: the adjusted probability of a player of flair magia
AplicarMagia(magia, probabilidad_base) ==
    IF magia >= 9 THEN Min(980, probabilidad_base + 300)
    ELSE IF magia >= 7 THEN Min(950, probabilidad_base + 150)
    ELSE IF magia >= 4 THEN Min(900, probabilidad_base + 50)
    ELSE probabilidad_base

\* the probabilities the engine hands to _aplicar_magia, in thousandths
ProbAvanzar(control) == 10 * CalcularProbabilidadExito(control, 60)
ProbLanzar(control) == 10 * CalcularProbabilidadExito(control, 70)
ProbQuitar(regate, fuerza) ==
    10 * CalcularProbabilidadExito(regate, 50)
        - (CalcularProbabilidadExito(fuerza, 50) - 50) * 3
ProbGol(control, regate, control_portero) ==
    10 * (CalcularProbabilidadExito(control, 30) + CalcularProbabilidadExito(regate, 20))
        - (CalcularProbabilidadExito(control_portero, 40) - 40) * 4

\* the key of max() in simular
Puntaje(st) == st.goles * 3 + st.regates_exitosos * 2 + st.robos + st.pases

\* the last player of equipo_a + equipo_b with the highest key
JugadorDelPartido_Ultimo(m) ==
    LET todos == m.equipo_a \o m.equipo_b
        k == CHOOSE i \in DOMAIN todos :
                /\ \A j \in DOMAIN todos : Puntaje(m.stats[todos[j]]) <= Puntaje(m.stats[todos[i]])
                /\ \A j \in (i + 1)..Len(todos) : Puntaje(m.stats[todos[j]]) < Puntaje(m.stats[todos[i]])
    IN  todos[k]

\* max(todos, key=...): the first player of equipo_a + equipo_b with the highest key
JugadorDelPartido(m) ==
    LET todos == m.equipo_a \o m.equipo_b
        k == CHOOSE i \in DOMAIN todos :
                /\ \A j \in DOMAIN todos : Puntaje(m.stats[todos[j]]) <= Puntaje(m.stats[todos[i]])
                /\ \A j \in 1..(i - 1) : Puntaje(m.stats[todos[j]]) < Puntaje(m.stats[todos[i]])
    IN  todos[k]

\* the ResultadoPartido simular returns
ResultadoPartido(m) ==
    [hay |-> TRUE,
     goles_equipo_a |-> m.goles_a,
     goles_equipo_b |-> m.goles_b,
     eventos |-> m.eventos,
     estadisticas_equipo_a |-> [p \in Elems(m.equipo_a) |-> m.stats[p]],
     estadisticas_equipo_b |-> [p \in Elems(m.equipo_b) |-> m.stats[p]],
     jugador_del_partido |-> JugadorDelPartido(m)]

\* patabol.py: SimuladorPartido(equipo_a, equipo_b).simular() on players whose
\* counters are stats, the first possession being sorteo and the draws tiros
RaizSimular(equipo_a, equipo_b, stats, sorteo, tiros) ==
    ResultadoPartido(
        RaizProcesarEstados(
            [NuevoSimulador(equipo_a, equipo_b, stats) EXCEPT
                !.posesion_equipo_a = sorteo, !.jugador_con_pelota = 0],
            tiros))

(***************************************************************************)
(* The state machine.  The session codes are the domain of sesiones; the   *)
(* ids a command names and the orders the random generator takes are the   *)
(* inputs of the actions.                                                  *)
(***************************************************************************)
\* no function has been called
SinCalculo == [fn |-> "ninguna"]

\* the state after the entry point's crear_sesion_por_defecto
InitCon(codigos) ==
    /\ \E sid \in codigos :
          sesiones = [c \in codigos |-> IF c = sid THEN SesionPorDefecto ELSE SesionVacia]
    /\ usuarioASesion = [u \in Humanos |-> SinCodigo]
    /\ hilos = <<>>
    /\ senal = SinCodigo
    /\ motor = MotorParado
    /\ calculo = SinCalculo
    /\ obreros = <<>>

Init == InitCon(Codigos)

\* the store after a step that returns no session
Poner(st) ==
    /\ sesiones' = st.ses
    /\ usuarioASesion' = st.idx
    /\ hilos' = st.hilos
    /\ senal' = SinCodigo
    /\ UNCHANGED <<motor, calculo, obreros>>

\* /sesion <nickname> by a user in no session
CmdSesion(u) ==
    /\ SesionDeUsuario(u) = SinCodigo
    /\ \E sid \in DOMAIN sesiones :
          /\ ~sesiones[sid].activa
          /\ Poner(CrearSesion(Almacen, sid, u))

\* /unirse <codigo> <nickname> by a user in no session
CmdUnirse(u) ==
    /\ SesionDeUsuario(u) = SinCodigo
    /\ \E sid \in DOMAIN sesiones : Poner(UnirseSesion(Almacen, sid, u))

\* /unirse ia by a user in a session
CmdUnirseIA(u) ==
    /\ SesionDeUsuario(u) # SinCodigo
    /\ Poner(AgregarBotASesion(Almacen, SesionDeUsuario(u), u))

\* /salir
CmdSalir(u) ==
    /\ SesionDeUsuario(u) # SinCodigo
    /\ Poner(SalirSesion(Almacen, u))

\* /seleccionar <id1> [id2] ...
CmdSeleccionar(u, listas) ==
    /\ SesionDeUsuario(u) # SinCodigo
    /\ \E ids \in listas :
          Poner([Almacen EXCEPT !.ses[SesionDeUsuario(u)] = Seleccionar(@, u, ids)])

\* /seleccionar_auto
CmdSeleccionarAuto(u, ordenes) ==
    /\ SesionDeUsuario(u) # SinCodigo
    /\ \E azar \in ordenes :
          Poner([Almacen EXCEPT !.ses[SesionDeUsuario(u)] = SeleccionarAuto(@, u, azar)])

\* /quitar <id>
CmdQuitar(u, tokens) ==
    /\ SesionDeUsuario(u) # SinCodigo
    /\ \E id \in tokens :
          Poner([Almacen EXCEPT !.ses[SesionDeUsuario(u)] = Quitar(@, u, id)])

\* /confirmar that returns no session
CmdConfirmar(u, ordenes) ==
    LET sid == SesionDeUsuario(u)
    IN  /\ sid # SinCodigo
        /\ \E azar \in ordenes :
              LET s2 == Confirmar(sesiones[sid], u, azar)
              IN  /\ ~DevuelveSenal(sesiones[sid], u, s2)
                  /\ Poner([Almacen EXCEPT !.ses[sid] = s2])

\* /confirmar that returns the session, and the background run the channel
\* starts for it
CmdConfirmarSenal(u, ordenes) ==
    LET sid == SesionDeUsuario(u)
    IN  /\ sid # SinCodigo
        /\ Len(hilos) < MaxHilos
        /\ \E azar \in ordenes :
              LET s2 == Confirmar(sesiones[sid], u, azar)
              IN  /\ DevuelveSenal(sesiones[sid], u, s2)
                  /\ sesiones' = [sesiones EXCEPT
                                    ![sid] = [s2 EXCEPT !.senales = Min(@ + 1, MaxSenales)]]
                  /\ hilos' = Append(hilos, NuevoHilo(sid))
                  /\ senal' = sid
                  /\ UNCHANGED <<usuarioASesion, motor, calculo, obreros>>

\* a run finds its session without exactly two participants and returns
HiloAbandona(i) ==
    /\ hilos[i].pc = "espera"
    /\ Len(ObjetoDe(hilos[i]).jugadores) # 2
    /\ Poner([Almacen EXCEPT !.hilos = SinHilo(@, i)])

\* a run simulates the match, records the result and marks the session; the
\* code of a session the store dropped names no session any more
HiloSimula(i) ==
    LET h == hilos[i]
        s == ObjetoDe(h)
    IN  /\ h.pc = "espera"
        /\ Len(s.jugadores) = 2
        /\ PuedeTerminar(s.jugadores[1].equipo, s.jugadores[2].equipo)
        /\ LET st1 == IF h.viva
                      THEN [Almacen EXCEPT !.ses[h.cod].ultimo_resultado = TRUE]
                      ELSE Almacen
               st2 == IF h.viva THEN MarcarPartidoSimulado(st1, h.cod) ELSE st1
           IN  Poner([st2 EXCEPT !.hilos[i] = [h EXCEPT !.pc = "entrega",
                                                        !.objeto = SesionVacia,
                                                        !.user_ids = UserIds(s),
                                                        !.finalizados = Finalizados(s)]])

\* the engine raises on an empty roster and the run dies
HiloFalla(i) ==
    LET h == hilos[i]
        s == ObjetoDe(h)
    IN  /\ h.pc = "espera"
        /\ Len(s.jugadores) = 2
        /\ PuedeFallar(s.jugadores[1].equipo, s.jugadores[2].equipo)
        /\ Poner([Almacen EXCEPT !.hilos = SinHilo(@, i)])

\* after the delivery of the events the run takes every human out of their session
HiloLimpia(i) ==
    /\ hilos[i].pc = "entrega"
    /\ Poner(SalirTodos([Almacen EXCEPT !.hilos = SinHilo(@, i)], hilos[i].user_ids))

Next ==
    \/ \E u \in Humanos : CmdSesion(u)
    \/ \E u \in Humanos : CmdUnirse(u)
    \/ \E u \in Humanos : CmdUnirseIA(u)
    \/ \E u \in Humanos : CmdSalir(u)
    \/ \E u \in Humanos : CmdSeleccionar(u, ListasIds)
    \/ \E u \in Humanos : CmdSeleccionarAuto(u, Ordenes)
    \/ \E u \in Humanos : CmdQuitar(u, TokensEntrada)
    \/ \E u \in Humanos : CmdConfirmar(u, Ordenes)
    \/ \E u \in Humanos : CmdConfirmarSenal(u, Ordenes)
    \/ \E i \in DOMAIN hilos : HiloAbandona(i)
    \/ \E i \in DOMAIN hilos : HiloSimula(i)
    \/ \E i \in DOMAIN hilos : HiloFalla(i)
    \/ \E i \in DOMAIN hilos : HiloLimpia(i)

Spec == Init /\ [][Next]_vars

(***************************************************************************)
(* The store with one session code more than Spec has: the humans create,  *)
(* join and leave sessions side by side, draft automatically and confirm,  *)
(* and the background runs clean up after them.                            *)
(***************************************************************************)
NextSalas ==
    \/ \E u \in Humanos : CmdSesion(u)
    \/ \E u \in Humanos : CmdUnirse(u)
    \/ \E u \in Humanos : CmdUnirseIA(u)
    \/ \E u \in Humanos : CmdSalir(u)
    \/ \E u \in Humanos : CmdSeleccionarAuto(u, Ordenes)
    \/ \E u \in Humanos : CmdConfirmar(u, Ordenes)
    \/ \E u \in Humanos : CmdConfirmarSenal(u, Ordenes)
    \/ \E i \in DOMAIN hilos : HiloAbandona(i)
    \/ \E i \in DOMAIN hilos : HiloSimula(i)
    \/ \E i \in DOMAIN hilos : HiloFalla(i)
    \/ \E i \in DOMAIN hilos : HiloLimpia(i)

SpecSalas == InitCon(1..(MaxSesiones + 1)) /\ [][NextSalas]_vars

(***************************************************************************)
(* The end-to-end scenario: one human creates a session, adds the scripted *)
(* opponent, drafts automatically and confirms, the random generator       *)
(* taking any order of the pool.                                           *)
(***************************************************************************)
\* no human is in a session
NadieConectado == \A h \in Humanos : usuarioASesion[h] = SinCodigo

\* the participant record of numero in the session of code sid
Participante(sid, numero) == JugadorPorTelefono(sesiones[sid], numero)

EscCrear(u) == NadieConectado /\ CmdSesion(u)

EscAgregarIA(u) ==
    /\ SesionDeUsuario(u) # SinCodigo
    /\ Len(sesiones[SesionDeUsuario(u)].jugadores) = 1
    /\ CmdUnirseIA(u)

EscSeleccionarAuto(u) ==
    /\ SesionDeUsuario(u) # SinCodigo
    /\ EnSesion(sesiones[SesionDeUsuario(u)], BOT_NUMERO_TELEFONO)
    /\ Participante(SesionDeUsuario(u), u).equipo = <<>>
    /\ CmdSeleccionarAuto(u, TodosLosOrdenes)

EscConfirmar(u) ==
    /\ SesionDeUsuario(u) # SinCodigo
    /\ Participante(SesionDeUsuario(u), u).equipo # <<>>
    /\ ~EquipoConfirmado(Participante(SesionDeUsuario(u), u))
    /\ CmdConfirmarSenal(u, TodosLosOrdenes)

NextEscenario ==
    \/ \E u \in Humanos : EscCrear(u)
    \/ \E u \in Humanos : EscAgregarIA(u)
    \/ \E u \in Humanos : EscSeleccionarAuto(u)
    \/ \E u \in Humanos : EscConfirmar(u)

SpecEscenario == InitCon(1..(MaxSesiones + 1)) /\ [][NextEscenario]_vars

(***************************************************************************)
(* The match engine as a state machine: a simulator is built on two        *)
(* non-empty rosters, simular draws the first possession, processes        *)
(* TOTAL_ESTADOS ticks and returns the result; then a second simulator is  *)
(* built on the same players and run on the draws the first one consumed.  *)
(***************************************************************************)
\* the rosters of a match: two goalkeepers, a forward against a goalkeeper,
\* a roster naming one forward twice against a forward, and a forward ahead
\* of a goalkeeper against a forward
Alineaciones ==
    {<<<<1>>, <<2>>>>, <<<<12>>, <<1>>>>, <<<<12, 12>>, <<13>>>>, <<<<13, 2>>, <<12>>>>}

InitMotor ==
    /\ sesiones = [c \in Codigos |-> SesionVacia]
    /\ usuarioASesion = [u \in Humanos |-> SinCodigo]
    /\ hilos = <<>>
    /\ senal = SinCodigo
    /\ calculo = SinCalculo
    /\ obreros = <<>>
    /\ \E al \in Alineaciones :
          motor = NuevoSimulador(al[1], al[2],
                                 [p \in Elems(al[1] \o al[2]) |-> StatsCero])

\* the scripts of a run: the holder keeps advancing, the holder loses every
\* ball, or every forward shoots and scores
Guiones == {"conservar", "perder", "gol"}

\* the draws of a tick under the script of the run, by the holder or else the
\* first player of the side in possession
TiroGuion(m) ==
    LET j == IF m.jugador_con_pelota = 0 THEN EquipoActual(m)[1] ELSE m.jugador_con_pelota
        Tiro(a, r, o) ==
            [jugador |-> j, accion |-> a, resultado |-> r, otro |-> o, epica |-> FALSE]
    IN  CASE m.guion = "gol" /\ RolEnPartido(j) = DELANTERO ->
                Tiro("intentar_gol", "gol", PorteroRival(m))
          [] m.guion = "perder" -> Tiro("avanzar_con_pelota", "perder_pelota", 0)
          [] OTHER -> Tiro("avanzar_con_pelota", "conservar_pelota", 0)

\* the draws a run consumes: in the first run those of the script, or any
\* while fewer than MaxLibres ticks left it; in the second those of the first
Sorteos(m) == IF m.corrida = 1 THEN BOOLEAN ELSE {m.anterior.sorteo}
GuionesDe(m) == IF m.corrida = 1 THEN Guiones ELSE {m.guion}
Tiros(m) ==
    IF m.corrida = 2 THEN {m.anterior.tiros[m.estado + 1]}
    ELSE IF m.libres < MaxLibres THEN TirosPosibles(m)
    ELSE {TiroGuion(m)}

\* simular: the draw of the first possession
Simular ==
    /\ motor.pc = "nuevo"
    /\ \E sorteo \in Sorteos(motor), guion \in GuionesDe(motor) :
          motor' = [motor EXCEPT !.pc = "tick", !.posesion_equipo_a = sorteo,
                                 !.sorteo = sorteo, !.jugador_con_pelota = 0,
                                 !.guion = guion]
    /\ UNCHANGED <<sesiones, usuarioASesion, hilos, senal, calculo, obreros>>

\* simular: one pass of the loop over range(TOTAL_ESTADOS)
Tick ==
    /\ motor.pc = "tick"
    /\ motor.estado < TOTAL_ESTADOS
    /\ \E t \in Tiros(motor) :
          motor' = [ProcesarEstado(motor, t) EXCEPT
                       !.libres = IF t = TiroGuion(motor) THEN @ ELSE @ + 1]
    /\ UNCHANGED <<sesiones, usuarioASesion, hilos, senal, calculo, obreros>>

\* simular: the loop is over and the result is returned
Terminar ==
    /\ motor.pc = "tick"
    /\ motor.estado = TOTAL_ESTADOS
    /\ motor' = [motor EXCEPT !.pc = "fin", !.resultado = ResultadoPartido(motor)]
    /\ UNCHANGED <<sesiones, usuarioASesion, hilos, senal, calculo, obreros>>

\* a second simulator on the same rosters and the same Patabolista objects
OtraCorrida ==
    /\ motor.pc = "fin"
    /\ motor.corrida = 1
    /\ motor' = [NuevoSimulador(motor.equipo_a, motor.equipo_b, motor.stats) EXCEPT
                    !.corrida = 2,
                    !.anterior = [hay |-> TRUE, resultado |-> motor.resultado,
                                  tiros |-> motor.tiros, sorteo |-> motor.sorteo]]
    /\ UNCHANGED <<sesiones, usuarioASesion, hilos, senal, calculo, obreros>>

NextMotor == Simular \/ Tick \/ Terminar \/ OtraCorrida

\* simular runs to its return once called, and the second run follows the first
SpecMotor == InitMotor /\ [][NextMotor]_vars /\ WF_vars(NextMotor)

(***************************************************************************)
(* The functions of the program that read no state, each called on inputs  *)
(* drawn from a bounded set; calculo holds the call and what it returned.  *)
(***************************************************************************)
\* the characters of a text: the prefix in both cases, another letter, digits,
\* the superscript two and the blank
Caracteres == {"P", "p", "x", "0", "1", "^2", " "}

\* n zeros
Ceros(n) == [i \in 1..n |-> "0"]

\* the ids of the numbers 1..MaxNumero in both cases with up to MaxCeros leading zeros
IdsEscritos ==
    {<<pre>> \o Ceros(z) \o Decimal(n) :
        pre \in {"P", "p"}, z \in 0..MaxCeros, n \in 1..MaxNumero}

\* the texts normalizar_id_patabolista is called on
Textos == UNION {[1..n -> Caracteres] : n \in 0..MaxTexto} \cup IdsEscritos

InitFunciones ==
    /\ sesiones = [c \in Codigos |-> SesionVacia]
    /\ usuarioASesion = [u \in Humanos |-> SinCodigo]
    /\ hilos = <<>>
    /\ senal = SinCodigo
    /\ motor = MotorParado
    /\ calculo = SinCalculo
    /\ obreros = <<>>

\* normalizar_id_patabolista(texto)
LlamarNormalizar ==
    /\ calculo.fn = "ninguna"
    /\ \E texto \in Textos :
          calculo' = [fn |-> "normalizar_id_patabolista", arg |-> texto,
                      res |-> normalizar_id_patabolista(texto)]
    /\ UNCHANGED <<sesiones, usuarioASesion, hilos, senal, motor, obreros>>

\* normalizar_id_patabolista on what the call before returned
LlamarNormalizarOtraVez ==
    /\ calculo.fn = "normalizar_id_patabolista"
    /\ calculo.res # ValueError
    /\ calculo' = [fn |-> "normalizar_id_patabolista otra vez", arg |-> calculo.res,
                   res |-> normalizar_id_patabolista(calculo.res)]
    /\ UNCHANGED <<sesiones, usuarioASesion, hilos, senal, motor, obreros>>

\* the bases the engine passes to _calcular_probabilidad_exito, in hundredths
Bases == {20, 30, 40, 50, 60, 70}

\* _calcular_probabilidad_exito(atributo, base)
LlamarCalcularProbabilidad ==
    /\ calculo.fn = "ninguna"
    /\ \E atributo \in 1..10, base \in Bases :
          calculo' = [fn |-> "_calcular_probabilidad_exito", atributo |-> atributo,
                      base |-> base, res |-> CalcularProbabilidadExito(atributo, base)]
    /\ UNCHANGED <<sesiones, usuarioASesion, hilos, senal, motor, obreros>>

\* the attributes _generar_atributos_por_rol can give a player of the role
AtributosDe(rol) ==
    {GenerarAtributosPorRol(rol, base, d) :
        base \in 1..10,
        d \in RangosDe(rol)[1] \X RangosDe(rol)[2] \X RangosDe(rol)[3] \X RangosDe(rol)[4]}

\* the control, the dribble and the strength a player of the pool can have
Controles == UNION {{a.control : a \in AtributosDe(rol)} : rol \in {PORTERO, DEFENSA, MEDIO, DELANTERO}}
Regates == UNION {{a.regate : a \in AtributosDe(rol)} : rol \in {PORTERO, DEFENSA, MEDIO, DELANTERO}}
Fuerzas == UNION {{a.fuerza : a \in AtributosDe(rol)} : rol \in {PORTERO, DEFENSA, MEDIO, DELANTERO}}

\* the control and the dribble a forward can have together
Delanteros == {<<a.control, a.regate>> : a \in AtributosDe(DELANTERO)}

\* the calls of _aplicar_magia: by _avanzar_con_pelota, _lanzar_pelota,
\* _intentar_quitar_pelota and _intentar_gol, on a player of any flair
LlamarAplicarMagia ==
    /\ calculo.fn = "ninguna"
    /\ \E magia \in 1..10 :
          \/ \E control \in Controles :
                calculo' = [fn |-> "_aplicar_magia", desde |-> "_avanzar_con_pelota",
                            magia |-> magia, atributos |-> <<control>>,
                            prob |-> ProbAvanzar(control),
                            res |-> AplicarMagia(magia, ProbAvanzar(control))]
          \/ \E control \in Controles :
                calculo' = [fn |-> "_aplicar_magia", desde |-> "_lanzar_pelota",
                            magia |-> magia, atributos |-> <<control>>,
                            prob |-> ProbLanzar(control),
                            res |-> AplicarMagia(magia, ProbLanzar(control))]
          \/ \E regate \in Regates, fuerza \in Fuerzas :
                calculo' = [fn |-> "_aplicar_magia", desde |-> "_intentar_quitar_pelota",
                            magia |-> magia, atributos |-> <<regate, fuerza>>,
                            prob |-> ProbQuitar(regate, fuerza),
                            res |-> AplicarMagia(magia, ProbQuitar(regate, fuerza))]
          \/ \E del \in Delanteros, control_portero \in Controles :
                calculo' = [fn |-> "_aplicar_magia", desde |-> "_intentar_gol",
                            magia |-> magia, atributos |-> <<del[1], del[2], control_portero>>,
                            prob |-> ProbGol(del[1], del[2], control_portero),
                            res |-> AplicarMagia(magia, ProbGol(del[1], del[2], control_portero))]
    /\ UNCHANGED <<sesiones, usuarioASesion, hilos, senal, motor, obreros>>

\* GeneradorPool().generar_pool(cantidad)
LlamarGenerarPool ==
    /\ calculo.fn = "ninguna"
    /\ \E cantidad \in 0..MaxCantidad :
          calculo' = [fn |-> "generar_pool", cantidad |-> cantidad,
                      res |-> PoolGenerado(cantidad)]
    /\ UNCHANGED <<sesiones, usuarioASesion, hilos, senal, motor, obreros>>

\* _generar_atributos_por_rol(rol) under every outcome of its five draws
LlamarGenerarAtributos ==
    /\ calculo.fn = "ninguna"
    /\ \E rol \in {PORTERO, DEFENSA, MEDIO, DELANTERO}, base \in 1..10 :
          \E d \in RangosDe(rol)[1] \X RangosDe(rol)[2] \X RangosDe(rol)[3] \X RangosDe(rol)[4] :
              calculo' = [fn |-> "_generar_atributos_por_rol", rol |-> rol,
                          base |-> base, d |-> d,
                          res |-> GenerarAtributosPorRol(rol, base, d)]
    /\ UNCHANGED <<sesiones, usuarioASesion, hilos, senal, motor, obreros>>

\* _generar_magia() under every outcome of its two draws
LlamarGenerarMagia ==
    /\ calculo.fn = "ninguna"
    /\ \E rand \in 0..99, u \in 0..2 :
          calculo' = [fn |-> "_generar_magia", rand |-> rand, u |-> u,
                      res |-> GenerarMagia(rand, u)]
    /\ UNCHANGED <<sesiones, usuarioASesion, hilos, senal, motor, obreros>>

NextFunciones ==
    \/ LlamarGenerarAtributos
    \/ LlamarGenerarMagia
    \/ LlamarNormalizar
    \/ LlamarNormalizarOtraVez
    \/ LlamarCalcularProbabilidad
    \/ LlamarGenerarPool
    \/ LlamarAplicarMagia

SpecFunciones == InitFunciones /\ [][NextFunciones]_vars

(***************************************************************************)
(* The worker threads of a channel.  Every inbound message runs            *)
(* procesar_comando in a thread of its own (the request threads of the     *)
(* webhook, the executor of the Telegram handler) and the store has no     *)
(* lock, so the threads interleave between the statements of a command.    *)
(* A worker of /seleccionar first reads the pool its caller may choose     *)
(* from and checks the ids against it, and later writes the roster.        *)
(***************************************************************************)
\* the users with a command in a worker
Ocupados == DOMAIN obreros

\* obreros with the worker of u holding o
ConObrero(u, o) == [v \in Ocupados \cup {u} |-> IF v = u THEN o ELSE obreros[v]]

\* obreros without the worker of u
SinObrero(u) == [v \in Ocupados \ {u} |-> obreros[v]]

\* /seleccionar up to the end of the loop over the ids: disponible and equipo
\* are locals of the worker
ObreroLee(u, listas) ==
    /\ SesionDeUsuario(u) # SinCodigo
    /\ u \notin Ocupados
    /\ \E ids \in listas :
          LET sid == SesionDeUsuario(u)
              disponible == PoolDisponiblePara(sesiones[sid], u)
          IN  /\ SeleccionValida(sesiones[sid], u, ids)
              /\ obreros' = ConObrero(u,
                    [cod |-> sid, disponible |-> disponible,
                     equipo |-> [i \in DOMAIN ids |-> JugadorDeId(disponible, ids[i])]])
    /\ UNCHANGED <<sesiones, usuarioASesion, hilos, senal, motor, calculo>>

\* /seleccionar from jugador_por_telefono on: the roster is written, the
\* caller is Pending and the state of the session is updated
ObreroEscribe(u) ==
    /\ u \in Ocupados
    /\ sesiones' = [sesiones EXCEPT
                       ![obreros[u].cod] = PonerEquipo(@, u, obreros[u].equipo)]
    /\ obreros' = SinObrero(u)
    /\ UNCHANGED <<usuarioASesion, hilos, senal, motor, calculo>>

NextObreros ==
    \/ \E u \in Humanos : CmdUnirse(u)
    \/ \E u \in Humanos : ObreroLee(u, ListasIds)
    \/ \E u \in Humanos : ObreroEscribe(u)

SpecObreros == Init /\ [][NextObreros]_vars

(***************************************************************************)
(* The claims.                                                             *)
(***************************************************************************)
\* the codes of the active sessions
Activas == {c \in DOMAIN sesiones : sesiones[c].activa}

\* the rosters of two different participants of s share no pool player
EquiposDisjuntos(s) ==
    \A i, j \in DOMAIN s.jugadores :
        i # j => Elems(s.jugadores[i].equipo) \cap Elems(s.jugadores[j].equipo) = {}

\* C1: in every reachable state the rosters of the two participants of a
\* session are disjoint, the scripted opponent's roster included.
C1_EquiposDisjuntos == \A c \in Activas : EquiposDisjuntos(sesiones[c])

\* C1 witness: a human and the scripted opponent both hold a roster.
C1_Testigo ==
    \E c \in Activas :
        /\ Len(sesiones[c].jugadores) = 2
        /\ EnSesion(sesiones[c], BOT_NUMERO_TELEFONO)
        /\ \A i \in 1..2 : sesiones[c].jugadores[i].equipo # <<>>

\* C2: at most one /confirmar returns the ready-to-simulate signal for a session.
C2_SenalUnaVez == \A c \in Activas : sesiones[c].senales <= 1

\* exactly two participants, both Confirmed, both with a roster
DosConfirmados(s) ==
    /\ Len(s.jugadores) = 2
    /\ \A i \in DOMAIN s.jugadores :
          s.jugadores[i].estado_equipo = CONFIRMADO /\ s.jugadores[i].equipo # <<>>

\* C3: a step that returns the signal is a /confirmar, and the session it
\* returns has exactly two participants, both Confirmed with a non-empty roster.
C3_SenalSegura ==
    [][senal' # SinCodigo =>
          /\ \E u \in Humanos : CmdConfirmarSenal(u, Ordenes)
          /\ sesiones'[senal'].activa
          /\ DosConfirmados(sesiones'[senal'])]_vars

\* C3 witness: a command has just returned the signal.
C3_Testigo == senal # SinCodigo

\* C4: the rosters a background run hands to SimuladorPartido are both
\* non-empty and both Confirmed.
C4_MotorFinalizado ==
    \A i \in DOMAIN hilos : hilos[i].pc = "entrega" => hilos[i].finalizados

\* C5: the scripted opponent holds a roster only in a session where a human
\* has confirmed before.
C5_BotReactivo ==
    \A c \in Activas :
        (/\ EnSesion(sesiones[c], BOT_NUMERO_TELEFONO)
         /\ JugadorPorTelefono(sesiones[c], BOT_NUMERO_TELEFONO).equipo # <<>>)
        => sesiones[c].humano_confirmo

\* C5 witness: the scripted opponent holds a roster.
C5_Testigo ==
    \E c \in Activas :
        /\ EnSesion(sesiones[c], BOT_NUMERO_TELEFONO)
        /\ JugadorPorTelefono(sesiones[c], BOT_NUMERO_TELEFONO).equipo # <<>>

\* a human u with a roster, the other slot being the scripted opponent without one
BotSinEquipo(c, u) ==
    /\ EnSesion(sesiones[c], u)
    /\ EnSesion(sesiones[c], BOT_NUMERO_TELEFONO)
    /\ Participante(c, u).equipo # <<>>
    /\ Participante(c, BOT_NUMERO_TELEFONO).equipo = <<>>

\* the scripted opponent of s has a roster and is Confirmed
BotListo(s) ==
    /\ EnSesion(s, BOT_NUMERO_TELEFONO)
    /\ JugadorPorTelefono(s, BOT_NUMERO_TELEFONO).equipo # <<>>
    /\ EquipoConfirmado(JugadorPorTelefono(s, BOT_NUMERO_TELEFONO))

\* C6: from every reachable state where a human holds a roster and
\* the other slot is the scripted opponent without one, /confirmar by that
\* human leaves the scripted opponent with a roster and Confirmed.
C6_Original ==
    \A c \in Activas : \A u \in Humanos : \A azar \in Ordenes :
        BotSinEquipo(c, u) => BotListo(Confirmar(sesiones[c], u, azar))

\* the scenario's session is the one its human created
SesionDelEscenario(c) == sesiones[c].activa /\ sesiones[c].creador_numero # NADIE

\* C7: in the scenario nothing before /confirmar returns the signal; from the
\* state /seleccionar_auto leaves, /confirmar returns it under every order of
\* the random generator; after it the signal has been returned once and the
\* scripted opponent's roster is non-empty, Confirmed and disjoint from the
\* human's.
C7_Escenario ==
    \A c \in DOMAIN sesiones : SesionDelEscenario(c) =>
        LET s == sesiones[c]
            u == s.creador_numero
        IN  IF EquipoConfirmado(JugadorPorTelefono(s, u))
            THEN /\ senal = c
                 /\ s.senales = 1
                 /\ BotListo(s)
                 /\ EquiposDisjuntos(s)
            ELSE /\ senal = SinCodigo
                 /\ s.senales = 0
                 /\ hilos = <<>>
                 /\ JugadorPorTelefono(s, u).equipo # <<>> =>
                       \A azar \in TodosLosOrdenes :
                           LET s2 == Confirmar(s, u, azar)
                           IN  DevuelveSenal(s, u, s2) /\ BotListo(s2) /\ EquiposDisjuntos(s2)

\* C7 witness: the scenario has run to its end.
C7_Testigo ==
    \E c \in DOMAIN sesiones :
        /\ SesionDelEscenario(c)
        /\ senal = c
        /\ BotListo(sesiones[c])

\* C8: every roster holds at most 5 entries; /seleccionar rejects a list of
\* more than 5 ids and the automatic draft picks at most min(5, eligible pool).
C8_TamanoEquipo ==
    \A c \in Activas :
        /\ \A i \in DOMAIN sesiones[c].jugadores :
              Len(sesiones[c].jugadores[i].equipo) <= 5
        /\ \A u \in HumanosDe(sesiones[c]) :
              /\ ~SeleccionValida(sesiones[c], u, ListaLarga)
              /\ \A azar \in Ordenes :
                    Len(EquipoAutomatico(PoolDisponiblePara(sesiones[c], u), azar))
                        <= Min(5, Len(PoolDisponiblePara(sesiones[c], u)))

\* C8 witness: a roster of 5 while the pool had more to offer.
C8_Testigo ==
    \E c \in Activas : \E i \in DOMAIN sesiones[c].jugadores :
        /\ Len(sesiones[c].jugadores[i].equipo) = 5
        /\ Len(PoolDisponiblePara(sesiones[c], sesiones[c].jugadores[i].numero_telefono)) > 5

\* C9: /confirmar by a participant who is already Confirmed leaves the session
\* as it is and does not return the signal.
C9_ConfirmarIdempotente ==
    \A c \in Activas : \A u \in HumanosDe(sesiones[c]) : \A azar \in Ordenes :
        EquipoConfirmado(Participante(c, u)) =>
            /\ Confirmar(sesiones[c], u, azar) = sesiones[c]
            /\ ~DevuelveSenal(sesiones[c], u, Confirmar(sesiones[c], u, azar))
            /\ ~ENABLED CmdConfirmarSenal(u, Ordenes)

\* C9 witness: both participants are Confirmed and the signal has been returned.
C9_Testigo ==
    \E c \in Activas : senal = c /\ DosConfirmados(sesiones[c])

\* the session of code c after /salir by u: gone when no human remains, else
\* active with the other participants as they were
DespuesDeSalir(c, u) ==
    LET quedan == SelectSeq(sesiones[c].jugadores,
                            LAMBDA j : j.numero_telefono # u)
    IN  IF HumanosDe(sesiones[c]) \ {u} = {}
        THEN ~sesiones'[c].activa
        ELSE sesiones'[c].activa /\ sesiones'[c].jugadores = quedan

\* C10: after /salir the caller is in no session and has no reverse-index
\* entry; the session is removed when no human remains, even with the scripted
\* opponent in it, and otherwise stays with the other participant unchanged.
C10_Salir ==
    [][\A u \in Humanos : CmdSalir(u) =>
          /\ usuarioASesion'[u] = SinCodigo
          /\ \A c \in DOMAIN sesiones : ~EnSesion(sesiones'[c], u)
          /\ DespuesDeSalir(SesionDeUsuario(u), u)]_vars

\* C10 witness: the creator has left and the other human is still in the session.
C10_Testigo ==
    \E c \in Activas :
        /\ sesiones[c].creador_numero # NADIE
        /\ ~EnSesion(sesiones[c], sesiones[c].creador_numero)
        /\ HumanosDe(sesiones[c]) # {}

\* the number of entries of the scripted opponent in s
EntradasBot(s) ==
    Cardinality({i \in DOMAIN s.jugadores :
                    s.jugadores[i].numero_telefono = BOT_NUMERO_TELEFONO})

\* C11: a session has at most 2 participants, the scripted opponent counted,
\* and at most one entry of the scripted opponent; unirse_sesion on a code
\* that names no session, on a session with 2 participants or by an identifier
\* already in it leaves the sessions and the reverse index as they are.
C11_Capacidad ==
    /\ \A c \in Activas :
          Len(sesiones[c].jugadores) <= 2 /\ EntradasBot(sesiones[c]) <= 1
    /\ \A c \in DOMAIN sesiones : \A u \in Humanos :
          (\/ ~sesiones[c].activa
           \/ Len(sesiones[c].jugadores) >= 2
           \/ EnSesion(sesiones[c], u))
          => UnirseSesion(Almacen, c, u) = Almacen

\* C11 witness: a session is full with the scripted opponent in it while a
\* human is in no session.
C11_Testigo ==
    \E c \in Activas : \E u \in Humanos :
        /\ Len(sesiones[c].jugadores) = 2
        /\ EntradasBot(sesiones[c]) = 1
        /\ usuarioASesion[u] = SinCodigo

\* C12: agregar_bot_a_sesion adds the scripted opponent when the caller is the
\* recorded creator of the session, the session has fewer than 2 participants
\* and the scripted opponent is not in it; in every other case it leaves the
\* sessions as they are.
C12_AgregarBot ==
    \A c \in DOMAIN sesiones : \A u \in Humanos :
        LET s == sesiones[c]
            st2 == AgregarBotASesion(Almacen, c, u)
        IN  IF /\ s.activa
               /\ s.creador_numero = u
               /\ Len(s.jugadores) < 2
               /\ ~EnSesion(s, BOT_NUMERO_TELEFONO)
            THEN /\ st2.ses[c].jugadores = Append(s.jugadores, JugadorEnSesion(BOT_NUMERO_TELEFONO))
                 /\ st2.idx = usuarioASesion
            ELSE st2 = Almacen

\* C12 witness: a human who is not the creator is alone in a session, and in
\* no session is the scripted opponent.
C12_Testigo ==
    \E c \in Activas : \E u \in HumanosDe(sesiones[c]) :
        /\ sesiones[c].creador_numero # u
        /\ Len(sesiones[c].jugadores) = 1

\* the pool players the participants of s other than numero hold
EnOtroEquipo(s, numero) ==
    UNION {Elems(s.jugadores[i].equipo) :
           i \in {k \in DOMAIN s.jugadores : s.jugadores[k].numero_telefono # numero}}

\* id names a pool player that no participant other than numero holds
IdElegible(s, numero, id) ==
    \E p \in Elems(Pool) :
        /\ normalizar_id_patabolista(IdDe(p)) = normalizar_id_patabolista(id)
        /\ p \notin EnOtroEquipo(s, numero)

\* C13: /seleccionar with no ids, with more than 5 ids, or with an id that is
\* not in the pool or that the other participant holds, leaves the session as
\* it is: the caller's roster and status and the session state included.
C13_RechazoSinCambio ==
    \A c \in Activas : \A u \in HumanosDe(sesiones[c]) : \A ids \in ListasIds :
        (\/ ids = <<>>
         \/ Len(ids) > 5
         \/ \E i \in DOMAIN ids : ~IdElegible(sesiones[c], u, ids[i]))
        => Seleccionar(sesiones[c], u, ids) = sesiones[c]

\* C13 witness: a Confirmed human faces a participant who holds a player that
\* the ids a user types name.
C13_Testigo ==
    \E c \in Activas : \E u \in HumanosDe(sesiones[c]) : \E id \in TokensEntrada :
        /\ EquipoConfirmado(Participante(c, u))
        /\ Participante(c, u).equipo # <<>>
        /\ \E p \in EnOtroEquipo(sesiones[c], u) :
              normalizar_id_patabolista(IdDe(p)) = normalizar_id_patabolista(id)

\* u is a participant of the active session s
Participa(s, u) == s.activa /\ EnSesion(s, u)

\* C14: a step that changes the roster of a human leaves that human Pending,
\* and a human who is Confirmed after a step was in the session before it with
\* the same roster: a human is Confirmed only while holding the roster of
\* their last /confirmar.
C14_CambioDejaPendiente ==
    [][\A c \in DOMAIN sesiones : \A u \in Humanos :
          /\ (/\ Participa(sesiones[c], u)
              /\ Participa(sesiones'[c], u)
              /\ JugadorPorTelefono(sesiones'[c], u).equipo
                    # JugadorPorTelefono(sesiones[c], u).equipo)
             => ~EquipoConfirmado(JugadorPorTelefono(sesiones'[c], u))
          /\ (/\ Participa(sesiones'[c], u)
              /\ EquipoConfirmado(JugadorPorTelefono(sesiones'[c], u)))
             => /\ Participa(sesiones[c], u)
                /\ JugadorPorTelefono(sesiones'[c], u).equipo
                      = JugadorPorTelefono(sesiones[c], u).equipo]_vars

\* C14 witness: the scripted opponent has drafted, so its human has confirmed,
\* and that human holds a roster and is Pending again.
C14_Testigo ==
    \E c \in Activas : \E u \in HumanosDe(sesiones[c]) :
        /\ BotListo(sesiones[c])
        /\ Participante(c, u).equipo # <<>>
        /\ ~EquipoConfirmado(Participante(c, u))

\* the pool players of the roster equipo that id names
Nombrados(equipo, id) ==
    {p \in Elems(equipo) :
        normalizar_id_patabolista(IdDe(p)) = normalizar_id_patabolista(id)}

\* C15: /quitar of an id that names a player of the caller's roster takes that
\* player out, keeps the other entries of the roster in their order, leaves
\* every other participant as they were and makes the player eligible for them;
\* /quitar of any other id leaves the session as it is.
C15_Quitar ==
    \A c \in Activas : \A u \in HumanosDe(sesiones[c]) : \A id \in TokensEntrada :
        LET s == sesiones[c]
            equipo == JugadorPorTelefono(s, u).equipo
            fuera == Nombrados(equipo, id)
            queda(p) == p \notin fuera
            s2 == Quitar(s, u, id)
        IN  IF fuera # {}
            THEN /\ JugadorPorTelefono(s2, u).equipo = SelectSeq(equipo, queda)
                 /\ Len(s2.jugadores) = Len(s.jugadores)
                 /\ \A i \in DOMAIN s.jugadores :
                       s.jugadores[i].numero_telefono # u
                       => /\ s2.jugadores[i] = s.jugadores[i]
                          /\ fuera \subseteq
                                Elems(PoolDisponiblePara(s2, s.jugadores[i].numero_telefono))
            ELSE s2 = s

\* C15 witness: a roster of several players holds one that a typed id names,
\* and the session has a second participant.
C15_Testigo ==
    \E c \in Activas : \E u \in HumanosDe(sesiones[c]) : \E id \in TokensEntrada :
        /\ Len(sesiones[c].jugadores) = 2
        /\ Nombrados(Participante(c, u).equipo, id) # {}
        /\ Cardinality(Elems(Participante(c, u).equipo)) >= 2

\* the entries of equipo are pairwise different
SinRepetidos(equipo) == Cardinality(Elems(equipo)) = Len(equipo)

\* equipo holds a goalkeeper
ConPortero(equipo) == \E p \in Elems(equipo) : RolPreferido(p) = PORTERO

\* the numbers of the participants of s
NumerosDe(s) == {s.jugadores[i].numero_telefono : i \in DOMAIN s.jugadores}

\* C16: for every participant, human or scripted opponent, and every order of
\* the random generator among the rotations of the pool and their reverses,
\* the automatic draft on the participant's eligible pool has exactly
\* min(5, size of the eligible pool) pairwise different players, none of them
\* held by the other participant, and a goalkeeper whenever the eligible pool
\* has one; /seleccionar_auto gives the caller that roster.
C16_EquipoAutomatico ==
    \A c \in Activas : \A n \in NumerosDe(sesiones[c]) : \A r \in 0..(2 * TamPool - 1) :
        LET s == sesiones[c]
            disponible == PoolDisponiblePara(s, n)
            equipo == EquipoAutomatico(disponible, Orden(r))
        IN  /\ Len(equipo) = Min(5, Len(disponible))
            /\ SinRepetidos(equipo)
            /\ Elems(equipo) \subseteq Elems(Pool) \ EnOtroEquipo(s, n)
            /\ ConPortero(disponible) => ConPortero(equipo)
            /\ n # BOT_NUMERO_TELEFONO =>
                  JugadorPorTelefono(SeleccionarAuto(s, n, Orden(r)), n).equipo = equipo

\* C16 witness: a human holds 5 different players with a goalkeeper among
\* them and the scripted opponent has drafted from what was left.
C16_Testigo ==
    \E c \in Activas : \E u \in HumanosDe(sesiones[c]) :
        /\ BotListo(sesiones[c])
        /\ Len(Participante(c, u).equipo) = 5
        /\ SinRepetidos(Participante(c, u).equipo)
        /\ ConPortero(Participante(c, u).equipo)

\* the tick an event is stamped with
TickDe(e) == (e.minuto * 60 + e.segundo) \div PASO_TIEMPO

\* the events are stamped with different ticks below estado, in order, each
\* with minute = tick*10 // 60 in 0..4 and second = tick*10 % 60
LogOrdenado(eventos, estado) ==
    /\ \A i \in DOMAIN eventos :
          /\ TickDe(eventos[i]) \in 0..(estado - 1)
          /\ eventos[i].minuto = (TickDe(eventos[i]) * 10) \div 60
          /\ eventos[i].minuto \in 0..4
          /\ eventos[i].segundo = (TickDe(eventos[i]) * 10) % 60
    /\ \A i, j \in DOMAIN eventos : i < j => TickDe(eventos[i]) < TickDe(eventos[j])

\* C17, the shape of a run: on any two non-empty rosters and under any draws,
\* every tick of simular can be processed, the log never holds more than one
\* event per processed tick, its events are stamped in order with
\* minute = tick*10 // 60 in 0..4 and second = tick*10 % 60, and the
\* MatchResult is returned after exactly 30 ticks with two scores that are
\* non-negative integers.
C17_Forma ==
    /\ motor.equipo_a # <<>> /\ motor.equipo_b # <<>>
    /\ motor.estado \in 0..30
    /\ Len(motor.tiros) = motor.estado
    /\ LogOrdenado(motor.eventos, motor.estado)
    /\ motor.pc = "tick" /\ motor.estado < 30 => TirosPosibles(motor) # {}
    /\ motor.pc = "fin" =>
          /\ motor.estado = 30
          /\ motor.resultado.hay
          /\ motor.resultado.goles_equipo_a \in Nat
          /\ motor.resultado.goles_equipo_b \in Nat
          /\ motor.resultado.eventos = motor.eventos

\* C17: for any two non-empty rosters and any resolution of the random
\* choices, simular processes exactly 30 ticks and terminates with a
\* MatchResult whose two scores are non-negative integers, whose log has at
\* most one event per tick, and whose events are in (minute, second) order
\* with minute = tick*10 // 60 in 0..4 and second = tick*10 % 60.
C17_TreintaTicks == []C17_Forma /\ ((motor.pc = "nuevo") ~> (motor.pc = "fin"))

\* C17 witness: a run returned a log of 30 events, one per tick, the last one
\* stamped 4:50.
C17_Testigo ==
    /\ motor.pc = "fin"
    /\ Len(motor.resultado.eventos) = 30
    /\ motor.resultado.eventos[30].minuto = 4
    /\ motor.resultado.eventos[30].segundo = 50

\* the roster is one goalkeeper
UnPortero(equipo) == Len(equipo) = 1 /\ RolEnPartido(equipo[1]) = PORTERO

\* C18: a run on two rosters of one goalkeeper each returns a non-empty event
\* log, whatever the random choices of its 30 ticks resolve to.
C18_LogNoVacio ==
    motor.pc = "fin" /\ UnPortero(motor.equipo_a) /\ UnPortero(motor.equipo_b)
        => motor.resultado.eventos # <<>>

RECURSIVE SumaGoles(_)
SumaGoles(estadisticas) ==
    IF DOMAIN estadisticas = {} THEN 0
    ELSE LET p == CHOOSE q \in DOMAIN estadisticas : TRUE
         IN  estadisticas[p].goles
                + SumaGoles([q \in DOMAIN estadisticas \ {p} |-> estadisticas[q]])

\* the number of goal events of the log whose scorer is one of jugadores
GolesDe(eventos, jugadores) ==
    Cardinality({i \in DOMAIN eventos :
                    eventos[i].tipo = "gol" /\ eventos[i].jugador \in jugadores})

ValorEn(r, p) ==
    LET est == IF p \in DOMAIN r.estadisticas_equipo_a
               THEN r.estadisticas_equipo_a[p] ELSE r.estadisticas_equipo_b[p]
    IN  est.goles * 3 + est.regates_exitosos * 2 + est.robos + est.pases

\* C21: the most-valuable player of a MatchResult is a player of one of the
\* two rosters whose value goals*3 + successfulDribbles*2 + steals + passes
\* is maximal over both rosters, and among the players with the maximal value
\* it is the first one in the order roster A then roster B.
C21_JugadorDelPartido ==
    motor.pc = "fin" =>
        LET r == motor.resultado
            todos == motor.equipo_a \o motor.equipo_b
        IN  \E k \in DOMAIN todos :
                /\ todos[k] = r.jugador_del_partido
                /\ \A j \in DOMAIN todos : ValorEn(r, todos[j]) <= ValorEn(r, todos[k])
                /\ \A j \in 1..(k - 1) : ValorEn(r, todos[j]) < ValorEn(r, todos[k])

\* C21 witness: a run returned a result in which two different players share
\* the maximal value.
C21_Testigo ==
    /\ motor.pc = "fin"
    /\ \E p, q \in Elems(motor.equipo_a \o motor.equipo_b) :
          /\ p # q
          /\ ValorEn(motor.resultado, p) = ValorEn(motor.resultado, q)
          /\ \A x \in Elems(motor.equipo_a \o motor.equipo_b) :
                ValorEn(motor.resultado, x) <= ValorEn(motor.resultado, p)

\* the text is an id as written: the prefix, zeros, the decimal of n
EscribeNumero(texto, n) ==
    \E pre \in {"P", "p"}, z \in 0..MaxCeros : texto = <<pre>> \o Ceros(z) \o Decimal(n)

\* C22: player-id normalization returns a value for every text, a second
\* normalization leaves that value as it is, and for every n >= 1, every
\* zero-padding and both cases of the prefix the value is "P" followed by the
\* decimal of n.
C22_Normalizacion ==
    /\ calculo.fn = "normalizar_id_patabolista" =>
          /\ calculo.res # ValueError
          /\ \A n \in 1..MaxNumero :
                EscribeNumero(calculo.arg, n) => calculo.res = <<"P">> \o Decimal(n)
    /\ calculo.fn = "normalizar_id_patabolista otra vez" => calculo.res = calculo.arg

\* the calls that return are idempotent and give "P" and the decimal of n
NormalizacionSalvoValueError ==
    /\ calculo.fn = "normalizar_id_patabolista" =>
          \A n \in 1..MaxNumero :
              EscribeNumero(calculo.arg, n) => calculo.res = <<"P">> \o Decimal(n)
    /\ calculo.fn = "normalizar_id_patabolista otra vez" => calculo.res = calculo.arg

\* C23: in hundredths, successProb(attribute, base) is base + (attribute-5)*10
\* when that is at most 95 and 95 otherwise, for every attribute in 1..10 and
\* every base of the engine: successProb(5, B) = B and successProb(10, 50) = 95.
C23_Probabilidad ==
    calculo.fn = "_calcular_probabilidad_exito" =>
        LET lineal == calculo.base + (calculo.atributo - 5) * 10
        IN  /\ lineal <= 95 => calculo.res = lineal
            /\ lineal > 95 => calculo.res = 95
            /\ calculo.atributo = 5 => calculo.res = calculo.base
            /\ calculo.atributo = 10 /\ calculo.base = 50 => calculo.res = 95

\* C23 witness: the call on attribute 10 and base 0.5 returned the cap.
C23_Testigo ==
    /\ calculo.fn = "_calcular_probabilidad_exito"
    /\ calculo.atributo = 10 /\ calculo.base = 50
    /\ calculo.res = 95

\* the number of ticks of tiros that satisfy Cuenta
Veces(tiros, Cuenta(_)) == Cardinality({i \in DOMAIN tiros : Cuenta(tiros[i])})

\* the seven counters of player p after the ticks tiros of one simulation,
\* counted from what the player did in each tick
ContadoresDe(p, tiros) ==
    LET Es(t, a, r) == t.accion = a /\ t.resultado = r
        Toca(t) == \/ t.jugador = p
                   \/ t.accion = "intentar_quitar_pelota" /\ t.otro = p
        Recibe(t) == Es(t, "lanzar_pelota", "conservar_pelota") /\ t.otro = p
        Lanza(t) == t.accion = "lanzar_pelota" /\ t.jugador = p
        Acierta(t) == Es(t, "lanzar_pelota", "conservar_pelota") /\ t.jugador = p
        Regatea(t) == Es(t, "intentar_quitar_pelota", "conservar_pelota") /\ t.jugador = p
        Roba(t) == Es(t, "intentar_quitar_pelota", "perder_pelota") /\ t.otro = p
        Comete(t) == Es(t, "intentar_quitar_pelota", "falta") /\ t.otro = p
        Marca(t) == Es(t, "intentar_gol", "gol") /\ t.jugador = p
        Ataja(t) == Es(t, "intentar_gol", "atajada") /\ t.otro = p
    IN  [toques |-> Veces(tiros, Toca) + Veces(tiros, Recibe),
         pases |-> Veces(tiros, Lanza) + Veces(tiros, Acierta),
         regates_exitosos |-> Veces(tiros, Regatea),
         robos |-> Veces(tiros, Roba),
         faltas |-> Veces(tiros, Comete),
         goles |-> Veces(tiros, Marca),
         atajadas |-> Veces(tiros, Ataja)]

\* C24: when a simulation starts the seven counters of every player of both
\* rosters are zero, and the statistics of its MatchResult count the actions
\* of that simulation only, also when the same players took part in an
\* earlier simulation.
C24_ContadoresDesdeCero ==
    /\ motor.pc = "nuevo" =>
          \A p \in Elems(motor.equipo_a \o motor.equipo_b) : motor.stats[p] = StatsCero
    /\ motor.pc = "fin" =>
          /\ \A p \in Elems(motor.equipo_a) :
                motor.resultado.estadisticas_equipo_a[p] = ContadoresDe(p, motor.tiros)
          /\ \A p \in Elems(motor.equipo_b) :
                motor.resultado.estadisticas_equipo_b[p] = ContadoresDe(p, motor.tiros)

\* C24 witness: a second simulation has returned on players that all had
\* touches, and one of them goals, in the first one.
C24_Testigo ==
    /\ motor.pc = "fin" /\ motor.corrida = 2
    /\ \A p \in Elems(motor.equipo_a) :
          motor.anterior.resultado.estadisticas_equipo_a[p].toques > 0
    /\ \A p \in Elems(motor.equipo_b) :
          motor.anterior.resultado.estadisticas_equipo_b[p].toques > 0
    /\ motor.anterior.resultado.goles_equipo_b > 0

\* the number of players of pool with the role rol
ConRol(pool, rol) == Cardinality({i \in DOMAIN pool : pool[i].rol_preferido = rol})

\* C25: generar_pool(count) returns exactly count players with the ids
\* P1..Pcount in order; for count = 15 the roles are 2 goalkeepers, 4
\* defenders, 5 midfielders and 4 forwards; for every other count >= 4 up to
\* MaxCantidad each of the four roles appears at least once.
C25_GenerarPool ==
    calculo.fn = "generar_pool" =>
        LET pool == calculo.res
        IN  /\ Len(pool) = calculo.cantidad
            /\ \A i \in DOMAIN pool : pool[i].id = <<"P">> \o Decimal(i)
            /\ calculo.cantidad = 15 =>
                  /\ ConRol(pool, PORTERO) = 2
                  /\ ConRol(pool, DEFENSA) = 4
                  /\ ConRol(pool, MEDIO) = 5
                  /\ ConRol(pool, DELANTERO) = 4
            /\ calculo.cantidad >= 4 =>
                  \A rol \in {PORTERO, DEFENSA, MEDIO, DELANTERO} : ConRol(pool, rol) >= 1

\* C25 witness: generar_pool returned a pool of 7 players, one of them a
\* goalkeeper, for a count the adjusted distribution serves.
C25_Testigo ==
    /\ calculo.fn = "generar_pool"
    /\ calculo.cantidad = 7
    /\ Len(calculo.res) = 7
    /\ ConRol(calculo.res, PORTERO) = 1

\* C26: every generated player has control, speed, strength and dribble in
\* 1..10 and flair in 1..10, for every role and every outcome of the random
\* draws of _generar_atributos_por_rol and _generar_magia.
C26_AtributosEnRango ==
    /\ calculo.fn = "_generar_atributos_por_rol" =>
          /\ calculo.res.control \in 1..10
          /\ calculo.res.velocidad \in 1..10
          /\ calculo.res.fuerza \in 1..10
          /\ calculo.res.regate \in 1..10
    /\ calculo.fn = "_generar_magia" => calculo.res \in 1..10

\* C26 witness: a goalkeeper was generated whose control and strength are 10
\* because base plus the draw went over 10.
C26_Testigo ==
    /\ calculo.fn = "_generar_atributos_por_rol"
    /\ calculo.rol = PORTERO
    /\ calculo.base + calculo.d[1] > 10
    /\ calculo.base + calculo.d[3] > 10
    /\ calculo.res.control = 10
    /\ calculo.res.fuerza = 10

\* C27: when the two participants of a session run /seleccionar in workers
\* that interleave, the reads and the writes of the two commands are
\* serialized, so that once both commands have returned the two rosters are
\* disjoint.
C27_SeleccionSerializada ==
    Ocupados = {} => \A c \in Activas : EquiposDisjuntos(sesiones[c])

\* C28: once /confirmar has returned the ready-to-simulate signal, the
\* background run it starts executes the engine to completion and records a
\* MatchResult, whatever commands come between the signal and the run: a
\* background run only ends after it has simulated the match and delivered
\* its events.
C28_CorridaCompleta ==
    [][Len(hilos') < Len(hilos) =>
          /\ Len(hilos') = Len(hilos) - 1
          /\ \E i \in DOMAIN hilos : hilos[i].pc = "entrega"]_vars

\* C29: Simulated is a terminal state: once the run has set the state of a
\* session to PARTIDO_SIMULADO, no later command or cleanup step changes the
\* state of that session to any other value.
C29_SimuladoTerminal ==
    [][\A c \in DOMAIN sesiones :
          /\ sesiones[c].activa /\ sesiones[c].estado = PARTIDO_SIMULADO
          /\ sesiones'[c].activa
          => sesiones'[c].estado = PARTIDO_SIMULADO]_vars

\* C30: the cleanup of a run, salir_sesion_fn for each human of the simulated
\* session after the delivery, only affects the simulated session: every
\* other session and the membership of every user who is in another session
\* are as they were before the cleanup.
C30_LimpiezaLocal ==
    [][\A i \in DOMAIN hilos :
          hilos[i].pc = "entrega" /\ Len(hilos') < Len(hilos) =>
              /\ \A u \in Humanos :
                    ~hilos[i].viva \/ usuarioASesion[u] # hilos[i].cod
                        => usuarioASesion'[u] = usuarioASesion[u]
              /\ \A c \in DOMAIN sesiones :
                    ~hilos[i].viva \/ c # hilos[i].cod => sesiones'[c] = sesiones[c]]_vars

\* the statistics of player p in the MatchResult r
EstadisticasEn(r, p) ==
    IF p \in DOMAIN r.estadisticas_equipo_a
    THEN r.estadisticas_equipo_a[p] ELSE r.estadisticas_equipo_b[p]

\* the number of events of the type tipo in which jugador is the acting player
EventosDe(eventos, tipo, jugador) ==
    Cardinality({i \in DOMAIN eventos :
                    eventos[i].tipo = tipo /\ eventos[i].jugador = jugador})

\* C31, pass accounting: for every player the passes counter of the final
\* statistics is the number of pass events of the log in which the player is
\* the passer: a successful pass credits the passer exactly one pass.
C31_PasesContados ==
    motor.pc = "fin" =>
        \A p \in Elems(motor.equipo_a \o motor.equipo_b) :
            EstadisticasEn(motor.resultado, p).pases
                = EventosDe(motor.resultado.eventos, "pase", p)

\* the step is one tick of the loop of simular
EsTick == motor.pc = "tick" /\ motor'.pc = "tick" /\ motor'.estado = motor.estado + 1

\* the draws of the last tick processed
UltimoTiro(m) == m.tiros[Len(m.tiros)]

\* the events the last tick appended to the log
EventosDelTick(antes, despues) ==
    SubSeq(despues.eventos, Len(antes.eventos) + 1, Len(despues.eventos))

\* the tick appended exactly one event, of the type tipo and by jugador
UnEvento(antes, despues, tipo, jugador) ==
    /\ Len(despues.eventos) = Len(antes.eventos) + 1
    /\ Prefijo(despues.eventos, Len(antes.eventos)) = antes.eventos
    /\ EventosDelTick(antes, despues)[1].tipo = tipo
    /\ EventosDelTick(antes, despues)[1].jugador = jugador

\* C32, dispossession outcomes in one tick: on a foul the side in possession
\* and the holder are unchanged and the defender's fouls grow by exactly 1; on
\* a steal the possession flips, the defender is the holder at the end of the
\* same tick and the defender's steals grow by exactly 1; on a dribble the
\* possession and the holder are unchanged and the attacker's successful
\* dribbles grow by exactly 1; each outcome logs exactly one event of its type.
C32_Disputa ==
    [][(EsTick /\ UltimoTiro(motor').accion = "intentar_quitar_pelota") =>
        LET t == UltimoTiro(motor')
            atacante == t.jugador
            defensor == t.otro
        IN  /\ t.resultado = "falta" =>
                  /\ motor'.posesion_equipo_a = motor.posesion_equipo_a
                  /\ motor'.jugador_con_pelota = atacante
                  /\ motor'.stats[defensor].faltas = motor.stats[defensor].faltas + 1
                  /\ motor'.stats[defensor].robos = motor.stats[defensor].robos
                  /\ UnEvento(motor, motor', "falta", defensor)
            /\ t.resultado = "perder_pelota" =>
                  /\ motor'.posesion_equipo_a = ~motor.posesion_equipo_a
                  /\ motor'.jugador_con_pelota = defensor
                  /\ defensor \in Elems(EquipoActual(motor'))
                  /\ motor'.stats[defensor].robos = motor.stats[defensor].robos + 1
                  /\ motor'.stats[defensor].faltas = motor.stats[defensor].faltas
                  /\ UnEvento(motor, motor', "robo", defensor)
            /\ t.resultado = "conservar_pelota" =>
                  /\ motor'.posesion_equipo_a = motor.posesion_equipo_a
                  /\ motor'.jugador_con_pelota = atacante
                  /\ motor'.stats[atacante].regates_exitosos
                         = motor.stats[atacante].regates_exitosos + 1
                  /\ UnEvento(motor, motor', "regate", atacante)]_vars

\* a tick has just ended in a steal and the defender has the ball
C32_Testigo ==
    /\ motor.pc = "tick"
    /\ motor.tiros # <<>>
    /\ UltimoTiro(motor).accion = "intentar_quitar_pelota"
    /\ UltimoTiro(motor).resultado = "perder_pelota"
    /\ motor.jugador_con_pelota = UltimoTiro(motor).otro
    /\ motor.stats[UltimoTiro(motor).otro].robos = 1

\* C33, ball-lost rule: a failed advance or a failed pass flips the side in
\* possession, clears the holder and logs no event, and the next tick picks
\* its holder from the new side in possession; a successful advance leaves the
\* holder and the side unchanged; a goal or a save clears the holder and
\* leaves the side unchanged.
C33_PelotaPerdida ==
    [][EsTick =>
        LET t == UltimoTiro(motor')
        IN  /\ (t.accion \in {"avanzar_con_pelota", "lanzar_pelota"}
                    /\ t.resultado = "perder_pelota") =>
                  /\ motor'.posesion_equipo_a = ~motor.posesion_equipo_a
                  /\ motor'.jugador_con_pelota = 0
                  /\ motor'.eventos = motor.eventos
            /\ (t.accion = "avanzar_con_pelota" /\ t.resultado = "conservar_pelota") =>
                  /\ motor'.posesion_equipo_a = motor.posesion_equipo_a
                  /\ motor'.jugador_con_pelota = t.jugador
            /\ t.accion = "intentar_gol" =>
                  /\ t.resultado \in {"gol", "atajada"}
                  /\ motor'.posesion_equipo_a = motor.posesion_equipo_a
                  /\ motor'.jugador_con_pelota = 0
            /\ motor.jugador_con_pelota = 0 => t.jugador \in Elems(EquipoActual(motor))
            /\ motor.jugador_con_pelota # 0 => t.jugador = motor.jugador_con_pelota]_vars

\* a pass has just failed: the other side has the possession and nobody the ball
C33_Testigo ==
    /\ motor.pc = "tick"
    /\ motor.tiros # <<>>
    /\ UltimoTiro(motor).accion = "lanzar_pelota"
    /\ UltimoTiro(motor).resultado = "perder_pelota"
    /\ motor.jugador_con_pelota = 0
    /\ UltimoTiro(motor).jugador \in Elems(JugadoresRivales(motor))

\* the first goalkeeper of a roster, else its first player
PrimerPortero(equipo) ==
    LET porteros == {i \in DOMAIN equipo : RolEnPartido(equipo[i]) = PORTERO}
    IN  IF porteros = {} THEN equipo[1]
        ELSE equipo[CHOOSE i \in porteros : \A j \in porteros : i <= j]

\* the roster of the side that plays against jugador
RivalDe(m, jugador) == IF jugador \in Elems(m.equipo_a) THEN m.equipo_b ELSE m.equipo_a

SinDelanteros(m) ==
    \A p \in Elems(m.equipo_a \o m.equipo_b) : RolEnPartido(p) # DELANTERO

\* C34, only forwards shoot: a player whose role is not forward never attempts
\* a shot and has no goals, so a match between two rosters without forwards
\* stays 0-0 with no goal and no save event; a save is credited only to the
\* first goalkeeper of the roster that plays against the shooter, or to the
\* first player of that roster when it has no goalkeeper.
C34_SoloDelanteros ==
    /\ \A i \in DOMAIN motor.tiros :
          motor.tiros[i].accion = "intentar_gol" =>
              RolEnPartido(motor.tiros[i].jugador) = DELANTERO
    /\ \A p \in Elems(motor.equipo_a \o motor.equipo_b) :
          /\ RolEnPartido(p) # DELANTERO => motor.stats[p].goles = 0
          /\ motor.stats[p].atajadas = EventosDe(motor.eventos, "atajada", p)
    /\ SinDelanteros(motor) =>
          /\ motor.goles_a = 0 /\ motor.goles_b = 0
          /\ \A i \in DOMAIN motor.eventos : motor.eventos[i].tipo \notin {"gol", "atajada"}
    /\ \A i \in DOMAIN motor.eventos :
          motor.eventos[i].tipo = "atajada" =>
              motor.eventos[i].jugador = PrimerPortero(RivalDe(motor, motor.eventos[i].otro))
    /\ motor.pc = "fin" =>
          \A p \in Elems(motor.equipo_a \o motor.equipo_b) :
              /\ RolEnPartido(p) # DELANTERO =>
                    EstadisticasEn(motor.resultado, p).goles = 0
              /\ SinDelanteros(motor) =>
                    /\ motor.resultado.goles_equipo_a = 0
                    /\ motor.resultado.goles_equipo_b = 0

\* a shot was saved by a goalkeeper that is not the first player of its roster
C34_Testigo ==
    /\ motor.pc = "fin"
    /\ \E i \in DOMAIN motor.eventos :
          /\ motor.eventos[i].tipo = "atajada"
          /\ motor.eventos[i].jugador = 2
          /\ RivalDe(motor, motor.eventos[i].otro)[1] # 2
    /\ motor.stats[2].atajadas = 1
    /\ motor.stats[2].goles = 0

\* no player is in both rosters
RostersDisjuntos(m) == Elems(m.equipo_a) \cap Elems(m.equipo_b) = {}

\* nobody has the ball, or a player of the side in possession has it
PoseedorConsistente(m) ==
    m.jugador_con_pelota = 0 \/ m.jugador_con_pelota \in Elems(EquipoActual(m))

\* the tick added one goal to the side of the scorer and none to the other
GolAlLadoDe(antes, despues, goleador) ==
    /\ goleador \in Elems(antes.equipo_a) =>
          /\ despues.goles_a = antes.goles_a + 1
          /\ despues.goles_b = antes.goles_b
    /\ goleador \in Elems(antes.equipo_b) =>
          /\ despues.goles_b = antes.goles_b + 1
          /\ despues.goles_a = antes.goles_a

\* C35, holder and possession: in a simulation on two disjoint rosters, at the
\* start and at the end of every tick the holder of the ball is unset or a
\* player of the roster of the side in possession; hence every goal is added
\* to the score of the side whose roster contains the scorer.
C35_PoseedorEnPosesion ==
    /\ [](RostersDisjuntos(motor) /\ motor.pc = "tick" => PoseedorConsistente(motor))
    /\ [][(RostersDisjuntos(motor) /\ EsTick) =>
            /\ UltimoTiro(motor').jugador \in Elems(EquipoActual(motor))
            /\ UltimoTiro(motor').resultado = "gol" =>
                  GolAlLadoDe(motor, motor', UltimoTiro(motor').jugador)
            /\ UltimoTiro(motor').resultado # "gol" =>
                  /\ motor'.goles_a = motor.goles_a
                  /\ motor'.goles_b = motor.goles_b]_vars

\* side b scored and one of its players holds the ball
C35_Testigo ==
    /\ motor.pc = "tick"
    /\ RostersDisjuntos(motor)
    /\ ~motor.posesion_equipo_a
    /\ motor.jugador_con_pelota \in Elems(motor.equipo_b)
    /\ motor.goles_b > 0
    /\ motor.goles_a = 0

\* C36, flair never hurts: for every flair 1..10 and every probability the
\* engine hands to _aplicar_magia, the adjusted probability it returns is
\* greater than or equal to the probability it was given.
C36_MagiaNoResta ==
    calculo.fn = "_aplicar_magia" => calculo.res >= calculo.prob

\* C37, duplicate-free rosters: after any sequence of commands no pool player
\* is more than once in the roster of a participant, a /seleccionar whose list
\* names one player several times ("P1 p01 P001") included.
C37_SinDuplicados ==
    \A c \in Activas :
        \A i \in DOMAIN sesiones[c].jugadores : SinRepetidos(sesiones[c].jugadores[i].equipo)

\* C38, reverse index: for every human u the index maps u to the session s
\* exactly when s is active and u is one of its participants; a human is a
\* participant of at most one active session; every active session that
\* /sesion created has at least one human participant.
C38_IndiceConsistente ==
    /\ \A u \in Humanos, c \in DOMAIN sesiones :
          usuarioASesion[u] = c <=> Participa(sesiones[c], u)
    /\ \A u \in Humanos :
          (usuarioASesion[u] = SinCodigo) <=> (\A c \in DOMAIN sesiones : ~Participa(sesiones[c], u))
    /\ \A u \in Humanos, c, d \in DOMAIN sesiones :
          Participa(sesiones[c], u) /\ Participa(sesiones[d], u) => c = d
    /\ \A c \in Activas :
          sesiones[c].creador_numero # NADIE => \E u \in Humanos : Participa(sesiones[c], u)

\* each of the two humans is in a session of their own, the second one created
\* by its participant
C38_Testigo ==
    \E c, d \in Activas :
        /\ c # d
        /\ Participa(sesiones[c], "h1") /\ usuarioASesion["h1"] = c
        /\ Participa(sesiones[d], "h2") /\ usuarioASesion["h2"] = d
        /\ sesiones[d].creador_numero = "h2"


\* the step is a /sesion of u that created the session of code c
CreaSesion(u, c) ==
    /\ CmdSesion(u)
    /\ ~sesiones[c].activa
    /\ sesiones'[c].activa

\* C39, "both ready" is sound: a session whose state is AMBOS_LISTOS has
\* exactly two participants and both rosters are non-empty; after /sesion the
\* state of the new session is SELECCIONANDO_EQUIPOS, its creator is the sole
\* participant, with an empty roster and Pending.
C39_AmbosListos ==
    /\ [](\A c \in Activas :
            sesiones[c].estado = AMBOS_LISTOS =>
                /\ Len(sesiones[c].jugadores) = 2
                /\ \A i \in DOMAIN sesiones[c].jugadores :
                      sesiones[c].jugadores[i].equipo # <<>>)
    /\ [][\A u \in Humanos, c \in DOMAIN sesiones :
            CreaSesion(u, c) =>
                /\ sesiones'[c].estado = SELECCIONANDO_EQUIPOS
                /\ sesiones'[c].creador_numero = u
                /\ Len(sesiones'[c].jugadores) = 1
                /\ sesiones'[c].jugadores[1].numero_telefono = u
                /\ sesiones'[c].jugadores[1].equipo = <<>>
                /\ sesiones'[c].jugadores[1].estado_equipo = PENDIENTE_CONFIRMACION
                /\ usuarioASesion'[u] = c]_vars

\* a session created by /sesion is AMBOS_LISTOS
C39_Testigo ==
    \E c \in Activas :
        /\ sesiones[c].estado = AMBOS_LISTOS
        /\ sesiones[c].creador_numero # NADIE
        /\ Len(sesiones[c].jugadores) = 2

\* C40, the two engines agree: for the same rosters and the same draws the
\* simulator of patabol.py and the simulator of core/patabol.py return the
\* same score, the same event log, the same statistics of every player, fouls
\* and steals included, and the same player of the match.
C40_MotoresIguales ==
    motor.pc = "fin" =>
        RaizSimular(motor.equipo_a, motor.equipo_b, motor.stats,
                    motor.sorteo, motor.tiros) = motor.resultado

====
